---- MODULE Spec2Model ----
(***************************************************************************)
(* ER707 WAN IP monitor: the IP classifier (IPValidator), the remediation  *)
(* loop (WANMonitor.remediate_private_ip) and the monitor service          *)
(* (WANMonitor.monitor_loop) of both transports, the Omada controller      *)
(* client (er707_wan_monitor.py) and the SSH client                        *)
(* (er707_wan_monitor_ssh.py).                                             *)
(*                                                                         *)
(* A Python str is a sequence of one-character strings; None is the        *)
(* one-element sequence <<"None">>, which is no sequence of characters.    *)
(***************************************************************************)
EXTENDS Integers, Sequences, FiniteSets, TLC

\* ------------------------------------------------------------------------
\* Strings
\* ------------------------------------------------------------------------

None == <<"None">>

\* Python truthiness of an Optional[str]: None and '' are falsy.
Truthy(s) == s # None /\ s # <<>>

Digits == {"0", "1", "2", "3", "4", "5", "6", "7", "8", "9"}

HexDigits == Digits \cup {"a", "b", "c", "d", "e", "f", "A", "B", "C", "D", "E", "F"}

DigitVal(c) ==
    CASE c = "0" -> 0 [] c = "1" -> 1 [] c = "2" -> 2 [] c = "3" -> 3
      [] c = "4" -> 4 [] c = "5" -> 5 [] c = "6" -> 6 [] c = "7" -> 7
      [] c = "8" -> 8 [] c = "9" -> 9

DigitChar(n) ==
    CASE n = 0 -> "0" [] n = 1 -> "1" [] n = 2 -> "2" [] n = 3 -> "3"
      [] n = 4 -> "4" [] n = 5 -> "5" [] n = 6 -> "6" [] n = 7 -> "7"
      [] n = 8 -> "8" [] n = 9 -> "9"

\* str(n) of a non-negative integer: decimal, no leading zeros.
RECURSIVE IntToStr(_)
IntToStr(n) == IF n < 10 THEN <<DigitChar(n)>>
               ELSE Append(IntToStr(n \div 10), DigitChar(n % 10))

\* int(s, 10) of a string of decimal digits.
RECURSIVE StrToInt(_)
StrToInt(s) == IF Len(s) = 0 THEN 0
               ELSE 10 * StrToInt(SubSeq(s, 1, Len(s) - 1)) + DigitVal(s[Len(s)])

\* s.split(sep): the pieces of s between the occurrences of sep.
RECURSIVE SplitAcc(_, _, _, _, _)
SplitAcc(s, sep, i, cur, acc) ==
    IF i > Len(s) THEN Append(acc, cur)
    ELSE IF s[i] = sep THEN SplitAcc(s, sep, i + 1, <<>>, Append(acc, cur))
    ELSE SplitAcc(s, sep, i + 1, Append(cur, s[i]), acc)

Split(s, sep) == SplitAcc(s, sep, 1, <<>>, <<>>)

Contains(s, c) == \E i \in 1..Len(s) : s[i] = c

\* The dotted text of four octets, as a device prints an IPv4 address.
Dotted(a, b, c, d) ==
    IntToStr(a) \o <<".">> \o IntToStr(b) \o <<".">> \o IntToStr(c) \o <<".">> \o IntToStr(d)

\* ------------------------------------------------------------------------
\* ipaddress (standard library), as IPValidator uses it
\* ------------------------------------------------------------------------

Pow2(n) == 2 ^ n

\* An octet as its 8 bits, most significant first.
OctetBits(n) == [i \in 1..8 |-> (n \div Pow2(8 - i)) % 2]

\* ipaddress._BaseV4._parse_octet: the octet's value, or -1 for ValueError.
parse_octet(o) ==
    IF Len(o) = 0 THEN -1
    ELSE IF \E i \in 1..Len(o) : o[i] \notin Digits THEN -1
    ELSE IF Len(o) > 3 THEN -1
    ELSE IF o # <<"0">> /\ o[1] = "0" THEN -1
    ELSE LET octet_int == StrToInt(o) IN
         IF octet_int > 255 THEN -1 ELSE octet_int

\* IPv4Address(str): [err, version, ip], ip the 32 bits of the address.
AddressValueError == [err |-> TRUE, version |-> 0, ip |-> <<>>]

IPv4Address(s) ==
    IF Contains(s, "/") THEN AddressValueError
    ELSE IF Len(s) = 0 THEN AddressValueError
    ELSE LET octets == Split(s, ".") IN
         IF Len(octets) # 4 THEN AddressValueError
         ELSE LET ints == [i \in 1..4 |-> parse_octet(octets[i])] IN
              IF \E i \in 1..4 : ints[i] = -1 THEN AddressValueError
              ELSE [err |-> FALSE, version |-> 4,
                    ip |-> OctetBits(ints[1]) \o OctetBits(ints[2])
                           \o OctetBits(ints[3]) \o OctetBits(ints[4])]

\* ipaddress._BaseV6._parse_hextet: TRUE when the hextet parses.
hextet_ok(h) == (\A i \in 1..Len(h) : h[i] \in HexDigits) /\ Len(h) >= 1 /\ Len(h) <= 4

\* ipaddress._BaseV6._ip_int_from_string, from the '::' search on: TRUE when
\* the parts (an IPv4-style suffix already replaced by its two hextets) make an
\* IPv6 address. Python's indices are 0-based, these are 1-based.
V6PartsOk(parts) ==
    LET n == Len(parts)
        inner == {i \in 2..(n - 1) : parts[i] = <<>>}
    IN  IF n > 8 + 1 THEN FALSE
        ELSE IF Cardinality(inner) > 1 THEN FALSE
        ELSE IF Cardinality(inner) = 1 THEN
            LET skip_index == (CHOOSE i \in inner : TRUE) - 1
                firstEmpty == parts[1] = <<>>
                lastEmpty == parts[n] = <<>>
                parts_hi == IF firstEmpty THEN skip_index - 1 ELSE skip_index
                parts_lo == IF lastEmpty THEN n - skip_index - 2 ELSE n - skip_index - 1
            IN  /\ ~(firstEmpty /\ parts_hi # 0)
                /\ ~(lastEmpty /\ parts_lo # 0)
                /\ 8 - (parts_hi + parts_lo) >= 1
                /\ \A i \in 1..parts_hi : hextet_ok(parts[i])
                /\ \A i \in (n - parts_lo + 1)..n : hextet_ok(parts[i])
        ELSE /\ n = 8
             /\ \A i \in 1..n : hextet_ok(parts[i])

\* IPv6Address(str): only the version is kept, no IPv4 network holds a v6 address.
IPv6Address(s) ==
    IF Contains(s, "/") THEN AddressValueError
    ELSE IF Len(s) = 0 THEN AddressValueError
    ELSE LET parts == Split(s, ":")
             last == parts[Len(parts)]
             parts2 == IF Contains(last, ".")
                       THEN SubSeq(parts, 1, Len(parts) - 1) \o << <<"0">>, <<"0">> >>
                       ELSE parts
         IN  IF Len(parts) < 3 THEN AddressValueError
             ELSE IF Contains(last, ".") /\ IPv4Address(last).err THEN AddressValueError
             ELSE IF V6PartsOk(parts2) THEN [err |-> FALSE, version |-> 6, ip |-> <<>>]
             ELSE AddressValueError

\* ipaddress.ip_address(str): IPv4 first, then IPv6, else ValueError (err).
ip_address(s) ==
    LET v4 == IPv4Address(s) IN
    IF ~v4.err THEN v4
    ELSE LET v6 == IPv6Address(s) IN
         IF ~v6.err THEN v6 ELSE AddressValueError

\* ipaddress.ip_network('a.b.c.d/n'): network address and netmask, as bits.
ip_network(s) ==
    LET parts == Split(s, "/")
        prefixlen == StrToInt(parts[2])
    IN  [version |-> 4,
         network_address |-> IPv4Address(parts[1]).ip,
         netmask |-> [i \in 1..(4 * 8) |-> IF i <= prefixlen THEN 1 ELSE 0]]

\* _BaseNetwork.__contains__: other._ip & netmask == network_address.
InNetwork(addr, net) ==
    /\ addr.version = net.version
    /\ [i \in 1..Len(net.netmask) |-> addr.ip[i] * net.netmask[i]] = net.network_address

\* ------------------------------------------------------------------------
\* IPValidator (both monitors carry the same class)
\* ------------------------------------------------------------------------

\* The outcome of a call: it returns val, or raises exc.
Return(v) == [exc |-> "", val |-> v]

Raise(e) == [exc |-> e, val |-> FALSE]

\* Mutant of PRIVATE_RANGES: the 172.16 block cut to a /16.
PRIVATE_RANGES_Slash16 ==
    << ip_network(<<"1", "0", ".", "0", ".", "0", ".", "0", "/", "8">>),
       ip_network(<<"1", "7", "2", ".", "1", "6", ".", "0", ".", "0", "/", "1", "6">>),
       ip_network(<<"1", "9", "2", ".", "1", "6", "8", ".", "0", ".", "0", "/", "1", "6">>) >>

\* RFC 1918 private IP ranges
PRIVATE_RANGES ==
    << ip_network(<<"1", "0", ".", "0", ".", "0", ".", "0", "/", "8">>),
       ip_network(<<"1", "7", "2", ".", "1", "6", ".", "0", ".", "0", "/", "1", "2">>),
       ip_network(<<"1", "9", "2", ".", "1", "6", "8", ".", "0", ".", "0", "/", "1", "6">>) >>

\* The try block of is_private_ip: ip_address may raise ValueError.
is_private_ip_try(ip_str) ==
    LET ip == ip_address(ip_str) IN
    IF ip.err THEN Raise("ValueError")
    ELSE Return(\E k \in 1..Len(PRIVATE_RANGES) : InNetwork(ip, PRIVATE_RANGES[k]))

\* is_private_ip: except ValueError -> log and return False.
is_private_ip(ip_str) ==
    LET try == is_private_ip_try(ip_str) IN
    IF try.exc = "ValueError" THEN Return(FALSE) ELSE try

\* Mutant of is_valid_ip: every text counts as an address.
is_valid_ip_Always(ip_str) == Return(TRUE)

\* is_valid_ip: True when ip_address parses, except ValueError -> False.
is_valid_ip(ip_str) ==
    IF ip_address(ip_str).err THEN Return(FALSE) ELSE Return(TRUE)

\* ------------------------------------------------------------------------
\* State
\* ------------------------------------------------------------------------

VARIABLES
    ip_str,       \* classifier: the string classified last
    ip_octets,    \* classifier: its four octets when it was printed from octets, else <<>>
    ip_private,   \* classifier: outcome of is_private_ip(ip_str)
    ip_valid,     \* classifier: outcome of is_valid_ip(ip_str)
    \* configuration (config.yaml / config_ssh.yaml), fixed for the run
    variant,                 \* "controller" (er707_wan_monitor.py) or "ssh" (er707_wan_monitor_ssh.py)
    max_reconnect_attempts,
    check_interval,
    reconnect_wait,
    \* WANMonitor
    pc,                      \* the blocking call monitor_loop is about to make
    last_known_ip,
    consecutive_failures,
    attempt,                 \* remediate_private_ip's loop variable
    \* device session
    controller_id,           \* OmadaController.controller_id ("None" when unresolved)
    site_id,                 \* OmadaController.site_id ("None" when unresolved)
    ssh_client,              \* ER707SSH.ssh_client: "None", "connected", "unconnected", "closed"
    session_leaked,          \* a connected SSHClient was replaced without close()
    port_enable,             \* the WAN port as the last toggle request served left it
    \* what the run did, for the properties
    raw_read,                \* the text the device gave for the last WAN read, None when it gave none
    observed,                \* how the last read was acted on: "public", "private", "failure"
    current_ip,              \* monitor_loop's current_ip: what check_wan_ip gave at the poll
    failures_at_poll,        \* consecutive_failures when the cycle began
    rem_hist,                \* outcome of each attempt of the current remediate_private_ip call
    rem_result,              \* "none", "running", "True", "False", "raised"
    toggles,                 \* toggle calls made by the current remediate_private_ip call
    toggle_result,           \* what the toggle call of the current attempt returned: "none", "True", "False"
    cmd_failed,              \* SSH: a command of the current attempt's toggle failed to execute
    polled,                  \* a poll cycle has begun
    reauth,                  \* this cycle's re-authentication: "none", "ok", "failed"
    cycle_logins,            \* login()/connect() calls made in this cycle
    window_logins,           \* login()/connect() calls since the failure count last reached a multiple of 3
    exc,                     \* the exception raised last in this cycle, "" when none
    slept,                   \* seconds of the last completed time.sleep
    startup,                 \* the initial authenticate: "pending", "ok", "failed"
    exit_status,             \* sys.exit status, 0 while the process has not exited
    \* a device-client method called on its own
    call,                    \* the last per-device call: method, arguments, requests sent, result
    auth,                    \* the last login()/connect() call: what happened, what it returned
    \* WANMonitor.extract_wan_ip called on its own
    device_status,           \* its argument: the result object of the gateway status
    extracted,               \* its outcome: the address returned, and the return taken
    \* ER707SSH.get_wan_ip called on its own
    cmd_outputs,             \* what execute_command gave for each command issued so far
    got_ip                   \* its outcome: the value returned, and the output it was taken from

ipvars == <<ip_str, ip_octets, ip_private, ip_valid>>

cfgvars == <<variant, max_reconnect_attempts, check_interval, reconnect_wait>>

sessvars == <<controller_id, site_id, ssh_client, session_leaked>>

monvars == <<pc, last_known_ip, consecutive_failures, window_logins>>

remvars == <<attempt, rem_hist, rem_result, toggles, toggle_result, cmd_failed>>

obsvars == <<raw_read, observed, current_ip, failures_at_poll>>

cycvars == <<polled, reauth, cycle_logins, exc>>

clientvars == <<call, auth>>

extractvars == <<device_status, extracted>>

getvars == <<cmd_outputs, got_ip>>

unitvars == <<clientvars, extractvars, getvars>>

vars ==
    <<ipvars, unitvars, cfgvars, port_enable, sessvars, monvars, remvars, obsvars, cycvars,
      slept, startup, exit_status>>

\* ------------------------------------------------------------------------
\* The classifier on its inputs
\* ------------------------------------------------------------------------

\* First octets around the three ranges, and the ends of the octet range.
FirstOctets == {0, 9, 10, 11, 171, 172, 173, 191, 192, 193, 255}

SecondOctets == {0, 15, 16, 17, 31, 32, 167, 168, 169, 255}

LowOctets == {0, 1, 255}

\* Strings that are no dotted quad of decimal octets.
TextInputs ==
    { <<>>,
      <<"n", "/", "a">>,
      <<"1", "0", ".", "0", ".", "0">>,
      <<"1", "0", ".", "0", ".", "0", ".", "0", ".", "5">>,
      <<"2", "5", "6", ".", "1", ".", "1", ".", "1">>,
      <<"0", "1", "0", ".", "0", ".", "0", ".", "1">>,
      <<"1", "0", ".", "0", ".", "0", ".", "5", " ">>,
      <<"1", "0", ".", "0", ".", "0", ".", "0", "/", "8">>,
      <<":", ":", "1">>,
      <<":", ":", "f", "f", "f", "f", ":", "1", "0", ".", "0", ".", "0", ".", "1">>,
      <<"f", "e", "8", "0", ":", ":", "1">>,
      <<"1", ":", "2", ":", "3">> }

\* No per-device method has been called since the last login.
NoCall == [op |-> "none", port_id |-> 0, sent |-> 0, val |-> "none", resp |-> <<>>]

\* No login() or connect() has been called.
NoAuth == [op |-> "none", cause |-> "none", val |-> FALSE]

\* No classification has been asked for.
Pending == [exc |-> "pending", val |-> FALSE]

\* The classifier's input is drawn: the text of four octets, or another text.
IPInit ==
    /\ \/ \E a \in FirstOctets, b \in SecondOctets, c \in LowOctets, d \in LowOctets :
            /\ ip_octets = <<a, b, c, d>>
            /\ ip_str = Dotted(a, b, c, d)
       \/ /\ ip_octets = <<>>
          /\ ip_str \in TextInputs
    /\ ip_private = Pending
    /\ ip_valid = Pending

\* The monitor's runs classify what the device gives, not a drawn input.
IPIdle ==
    /\ ip_octets = <<>>
    /\ ip_str = <<>>
    /\ ip_private = Pending
    /\ ip_valid = Pending

\* classify the text of an IPv4 literal a.b.c.d
ClassifyLiteral ==
    /\ ip_private = Pending
    /\ ip_octets # <<>>
    /\ ip_private' = is_private_ip(ip_str)
    /\ ip_valid' = is_valid_ip(ip_str)
    /\ UNCHANGED <<ip_str, ip_octets, unitvars, cfgvars, port_enable, sessvars, monvars,
                   remvars, obsvars, cycvars, slept, startup, exit_status>>

\* classify any other text
ClassifyText ==
    /\ ip_private = Pending
    /\ ip_octets = <<>>
    /\ ip_private' = is_private_ip(ip_str)
    /\ ip_valid' = is_valid_ip(ip_str)
    /\ UNCHANGED <<ip_str, ip_octets, unitvars, cfgvars, port_enable, sessvars, monvars,
                   remvars, obsvars, cycvars, slept, startup, exit_status>>

\* ------------------------------------------------------------------------
\* The monitors: bounds, inputs, initial state
\* ------------------------------------------------------------------------

\* Largest max_reconnect_attempts a configuration gives.
MaxAttempts == 3

\* consecutive_failures is not let past this count.
MaxFailures == 5

STABILIZE_SECONDS == 30

BACKOFF_SECONDS == 60

COOLDOWN_SECONDS == 60

SSH_RECONNECT_SECONDS == 5

REAUTH_THRESHOLD == 3

\* check_interval_seconds: the default, and a value time.sleep rejects.
CheckIntervals == {300, -1}

\* reconnect_wait_seconds: the default, and a value time.sleep rejects.
ReconnectWaits == {5, -1}

PrivateReads == { Dotted(10, 0, 0, 5) }

PublicReads == { Dotted(203, 0, 113, 9), Dotted(172, 32, 0, 0) }

\* Texts of the \d+.\d+.\d+.\d+ shape that are no address.
BadDottedReads == { <<"2", "5", "6", ".", "1", ".", "1", ".", "1">> }

\* What ER707SSH.get_wan_ip can return: a match of one of its patterns, or None.
SshReads == PrivateReads \cup PublicReads \cup BadDottedReads \cup {None}

\* What extract_wan_ip can return: any JSON string of the status, or None.
ControllerReads ==
    PrivateReads \cup PublicReads \cup BadDottedReads
        \cup { None, <<>>, <<"n", "/", "a">>, <<":", ":", "1">> }

MonInit ==
    /\ variant \in {"controller", "ssh"}
    /\ max_reconnect_attempts \in 0..MaxAttempts
    /\ check_interval \in CheckIntervals
    /\ reconnect_wait \in ReconnectWaits
    /\ pc = "start"
    /\ last_known_ip = None
    /\ consecutive_failures = 0
    /\ attempt = 0
    /\ controller_id = "None"
    /\ site_id = "None"
    /\ ssh_client = "None"
    /\ session_leaked = FALSE
    /\ port_enable = TRUE
    /\ raw_read = None
    /\ observed = "none"
    /\ current_ip = None
    /\ failures_at_poll = 0
    /\ rem_hist = <<>>
    /\ rem_result = "none"
    /\ toggles = 0
    /\ toggle_result = "none"
    /\ cmd_failed = FALSE
    /\ polled = FALSE
    /\ reauth = "none"
    /\ cycle_logins = 0
    /\ window_logins = 0
    /\ exc = ""
    /\ slept = 0
    /\ startup = "pending"
    /\ exit_status = 0

\* ------------------------------------------------------------------------
\* WANMonitor.extract_wan_ip (controller variant)
\* ------------------------------------------------------------------------

\* JSON values as the code tells them apart: a key that is absent, null, a
\* string, an object of address fields, another value.
JAbsent == [t |-> "absent", s |-> <<>>]

JNull == [t |-> "null", s |-> <<>>]

JStr(s) == [t |-> "str", s |-> s]

\* d.get(key): None for a key that is absent.
Get(v) == IF v.t = "absent" THEN JNull ELSE v

\* Python's truth value of a JSON value: None and "" are false.
JTruthy(v) == v.t = "str" /\ v.s # <<>>

\* Python's "a or b".
Or(a, b) == IF JTruthy(a) THEN a ELSE b

\* {} : an object with no key.
EmptyDict == [t |-> "dict", ipAddr |-> JAbsent, ip |-> JAbsent, ipv4 |-> JAbsent]

\* d.get(key, {}): the default for a key that is absent.
GetOrEmpty(v) == IF v.t = "absent" THEN EmptyDict ELSE v

UpperCase ==
    <<"A", "B", "C", "D", "E", "F", "G", "H", "I", "J", "K", "L", "M",
      "N", "O", "P", "Q", "R", "S", "T", "U", "V", "W", "X", "Y", "Z">>

LowerCase ==
    <<"a", "b", "c", "d", "e", "f", "g", "h", "i", "j", "k", "l", "m",
      "n", "o", "p", "q", "r", "s", "t", "u", "v", "w", "x", "y", "z">>

\* str.lower(), on ASCII letters.
Lower(s) ==
    [i \in 1..Len(s) |->
        IF \E k \in 1..Len(UpperCase) : UpperCase[k] = s[i]
        THEN LowerCase[CHOOSE k \in 1..Len(UpperCase) : UpperCase[k] = s[i]]
        ELSE s[i]]

\* str.startswith
StartsWith(s, prefix) ==
    Len(s) >= Len(prefix) /\ SubSeq(s, 1, Len(prefix)) = prefix

\* The outcomes of extract_wan_ip: "return ip" at one of the three shapes,
\* "return None" after the three, "return None" of the except clause.
Found(ip, shape) == [val |-> ip.s, via |-> shape]

NotFound == [val |-> None, via |-> "none"]

Caught == [val |-> None, via |-> "except"]

NotExtracted == [val |-> None, via |-> "pending"]

\* "port.get('type') == 'wan' or port.get('name', '').lower().startswith('wan')":
\* "yes", "no", or "raise" when name is not a string (AttributeError).
is_wan_port(port) ==
    IF port.type.t = "str" /\ port.type.s = <<"w", "a", "n">> THEN "yes"
    ELSE IF port.name.t = "absent" THEN "no"
    ELSE IF port.name.t # "str" THEN "raise"
    ELSE IF StartsWith(Lower(port.name.s), <<"w", "a", "n">>) THEN "yes" ELSE "no"

\* "for port in ports:" from the i-th port on.
RECURSIVE ports_from(_, _)
ports_from(ports, i) ==
    IF i > Len(ports) THEN NotFound
    ELSE LET port == ports[i]
             ip == Or(Get(port.ipAddr), Get(port.ip))
         IN  IF port.t # "dict" THEN Caught
             ELSE IF is_wan_port(port) = "raise" THEN Caught
             ELSE IF is_wan_port(port) = "yes" /\ JTruthy(ip) THEN Found(ip, "ports")
             ELSE ports_from(ports, i + 1)

\* The third shape: device_status.get('ports', []).
check_ports(status) ==
    IF status.ports.t = "absent" THEN NotFound
    ELSE IF status.ports.t # "list" THEN Caught
    ELSE ports_from(status.ports.items, 1)

\* The second shape: device_status.get('networkStatus', {}).get('wan', {});
\* network_status.get raises AttributeError when networkStatus is no object.
check_network_status(status) ==
    LET network_status == GetOrEmpty(status.networkStatus) IN
    IF network_status.t # "dict" THEN Caught
    ELSE LET wan_status == IF network_status = EmptyDict THEN EmptyDict
                           ELSE GetOrEmpty(network_status.wan)
             ip == IF wan_status.t = "dict"
                   THEN Or(Get(wan_status.ipAddr), Get(wan_status.ip)) ELSE JNull
         IN  IF JTruthy(ip) THEN Found(ip, "networkStatus") ELSE check_ports(status)

\* WANMonitor.extract_wan_ip: the first shape, then the others.
extract_wan_ip(status) ==
    LET wan_info == GetOrEmpty(status.wan)
        ip == IF wan_info.t = "dict"
              THEN Or(Or(Get(wan_info.ipAddr), Get(wan_info.ip)), Get(wan_info.ipv4))
              ELSE JNull
    IN  IF JTruthy(ip) THEN Found(ip, "wan") ELSE check_network_status(status)

\* The values of an address key in the statuses tried.
AddrValues(a) == {JAbsent, JStr(<<>>), JStr(a)}

\* 'wan' of the status: absent, null, or an object.
WanObjects ==
    {JAbsent, JNull}
        \cup { [t |-> "dict", ipAddr |-> a, ip |-> b, ipv4 |-> c] :
                 a \in {JAbsent, JStr(Dotted(198, 51, 100, 1))},
                 b \in AddrValues(Dotted(198, 51, 100, 2)),
                 c \in {JAbsent, JStr(Dotted(198, 51, 100, 3))} }

\* 'networkStatus' of the status: absent, null, or an object whose 'wan' is
\* absent, null or an object.
NetworkStatusObjects ==
    {JAbsent, JNull}
        \cup { [t |-> "dict", wan |-> w] :
                 w \in {JAbsent, JNull}
                    \cup { [t |-> "dict", ipAddr |-> a, ip |-> b, ipv4 |-> c] :
                             a \in AddrValues(Dotted(198, 51, 100, 4)),
                             b \in {JAbsent, JStr(Dotted(198, 51, 100, 5))},
                             c \in {JAbsent, JStr(Dotted(198, 51, 100, 6))} } }

\* The ports of the statuses tried: a LAN port with an address, a WAN port by
\* type, a WAN port by name, a WAN port without address, a port whose name is
\* null.
Ports ==
    { [t |-> "dict", type |-> JStr(<<"l", "a", "n">>), name |-> JStr(<<"L", "A", "N", "1">>),
       ipAddr |-> JStr(Dotted(192, 168, 0, 1)), ip |-> JAbsent],
      [t |-> "dict", type |-> JStr(<<"w", "a", "n">>), name |-> JAbsent,
       ipAddr |-> JStr(Dotted(198, 51, 100, 7)), ip |-> JAbsent],
      [t |-> "dict", type |-> JAbsent, name |-> JStr(<<"W", "A", "N", "2">>),
       ipAddr |-> JStr(<<>>), ip |-> JStr(Dotted(198, 51, 100, 8))],
      [t |-> "dict", type |-> JStr(<<"w", "a", "n">>), name |-> JStr(<<"w", "a", "n", "1">>),
       ipAddr |-> JAbsent, ip |-> JAbsent],
      [t |-> "dict", type |-> JStr(<<"l", "a", "n">>), name |-> JNull,
       ipAddr |-> JAbsent, ip |-> JAbsent] }

\* Longest 'ports' list of the statuses tried.
MaxPorts == 2

RECURSIVE PortLists(_)
PortLists(n) ==
    IF n = 0 THEN { <<>> }
    ELSE PortLists(n - 1)
            \cup { Append(l, port) : l \in { x \in PortLists(n - 1) : Len(x) = n - 1 },
                                     port \in Ports }

\* 'ports' of the status: absent, null, or a list.
PortsValues ==
    {JAbsent, JNull} \cup { [t |-> "list", items |-> l] : l \in PortLists(MaxPorts) }

DeviceStatuses ==
    [wan : WanObjects, networkStatus : NetworkStatusObjects, ports : PortsValues]

\* The status of a monitor that has extracted nothing.
NoStatus == [wan |-> JAbsent, networkStatus |-> JAbsent, ports |-> JAbsent]

\* ------------------------------------------------------------------------
\* ER707SSH.get_wan_ip (SSH variant)
\* ------------------------------------------------------------------------

\* commands_to_try, with wan_interface = "wan1"
commands_to_try ==
    << "show interface wan1", "show ip interface brief", "show interface brief", "show wan",
       "show running-config interface wan1", "ifconfig wan1", "ip addr show wan1" >>

\* What the regular expressions' \s matches, and str.strip() removes.
Whitespace == {" ", "\n", "\t", "\r"}

\* str.strip()
RECURSIVE strip(_)
strip(s) ==
    IF s = <<>> THEN s
    ELSE IF Head(s) \in Whitespace THEN strip(Tail(s))
    ELSE IF s[Len(s)] \in Whitespace THEN strip(SubSeq(s, 1, Len(s) - 1))
    ELSE s

\* "len(output.strip()) > 10"
MEANINGFUL_LENGTH == 10

\* "if output and len(output.strip()) > 10": execute_command gave an output
\* (not None, not "") that is long enough.
meaningful(output) == Truthy(output) /\ Len(strip(output)) > MEANINGFUL_LENGTH

\* The end of the longest run of characters of a set from position i on
\* (the position after the run).
RECURSIVE RunEnd(_, _, _)
RunEnd(s, i, chars) ==
    IF i <= Len(s) /\ s[i] \in chars THEN RunEnd(s, i + 1, chars) ELSE i

\* \d+\.\d+\.\d+\.\d+ at position i with n groups still to match: the position
\* after the match, 0 when there is none.
RECURSIVE QuadEnd(_, _, _)
QuadEnd(s, i, n) ==
    LET e == RunEnd(s, i, Digits) IN
    IF e = i THEN 0
    ELSE IF n = 1 THEN e
    ELSE IF e <= Len(s) /\ s[e] = "." THEN QuadEnd(s, e + 1, n - 1)
    ELSE 0

\* ip_patterns: the text before the address (matched without regard to
\* case), whether white space must follow it (\s+ or \s*), and whether "/"
\* and digits must follow the address.
ip_patterns ==
    << [before |-> <<"i", "n", "e", "t">>, space |-> 1, cidr |-> FALSE],
       [before |-> <<"i", "p", " ", "a", "d", "d", "r", "e", "s", "s", ":">>, space |-> 0,
        cidr |-> FALSE],
       [before |-> <<"i", "p", "v", "4", ":">>, space |-> 0, cidr |-> FALSE],
       [before |-> <<"a", "d", "d", "r", "e", "s", "s">>, space |-> 1, cidr |-> FALSE],
       [before |-> <<"i", "p", ":">>, space |-> 0, cidr |-> FALSE],
       [before |-> <<>>, space |-> 0, cidr |-> TRUE] >>

\* The match of a pattern that begins at position i: its group 1, <<>> when
\* the pattern does not match there.
match_at(pattern, s, i) ==
    LET k == i + Len(pattern.before)
        a == RunEnd(s, k, Whitespace)
        e == QuadEnd(s, a, 4)
    IN  IF /\ k - 1 <= Len(s)
           /\ Lower(SubSeq(s, i, k - 1)) = pattern.before
           /\ a - k >= pattern.space
           /\ e # 0
           /\ pattern.cidr => (e <= Len(s) /\ s[e] = "/" /\ RunEnd(s, e + 1, Digits) > e + 1)
        THEN SubSeq(s, a, e - 1)
        ELSE <<>>

\* re.search(pattern, output, re.IGNORECASE): group 1 of the leftmost match,
\* <<>> when there is no match.
RECURSIVE search_from(_, _, _)
search_from(pattern, s, i) ==
    IF i > Len(s) THEN <<>>
    ELSE IF match_at(pattern, s, i) # <<>> THEN match_at(pattern, s, i)
    ELSE search_from(pattern, s, i + 1)

\* "for pattern in ip_patterns": the first pattern from the n-th on whose
\* match is neither 0.0.0.0 nor 127.*, None when there is no such pattern.
RECURSIVE parse_from(_, _)
parse_from(output, n) ==
    IF n > Len(ip_patterns) THEN None
    ELSE LET ip == search_from(ip_patterns[n], output, 1) IN
         IF /\ ip # <<>>
            /\ ip # <<"0", ".", "0", ".", "0", ".", "0">>
            /\ ~StartsWith(ip, <<"1", "2", "7", ".">>)
         THEN ip
         ELSE parse_from(output, n + 1)

\* What execute_command gives in the runs tried: None (the command could not
\* be executed), no output, white space, a short line with an address, a
\* line with an address, an error message, the loopback interface listed
\* before the WAN interface, an interface without address followed by the
\* address in another notation.
CommandOutputs ==
    { None,
      <<>>,
      <<" ", "\n">>,
      <<"1", ".", "2", ".", "3", ".", "4", "/", "8", "\n">>,
      <<"i", "n", "e", "t", " ", "2", "0", "3", ".", "0", ".", "1", "1", "3", ".", "9", "/",
        "2", "4", "\n">>,
      <<"%", " ", "U", "n", "k", "n", "o", "w", "n", " ", "c", "o", "m", "m", "a", "n", "d">>,
      <<"i", "n", "e", "t", " ", "1", "2", "7", ".", "0", ".", "0", ".", "1", "\n", "i",
        "n", "e", "t", " ", "2", "0", "3", ".", "0", ".", "1", "1", "3", ".", "9", "\n">>,
      <<"i", "n", "e", "t", " ", "0", ".", "0", ".", "0", ".", "0", "\n", "I", "P", " ",
        "A", "d", "d", "r", "e", "s", "s", ":", " ", "1", "9", "8", ".", "5", "1", ".", "1",
        "0", "0", ".", "7", "\n">> }

\* get_wan_ip has not returned.
NotRead == [val |-> None, from |-> 0, done |-> FALSE]

\* The for loop over commands_to_try is over: it broke, or the list is used up.
LoopOver ==
    \/ Len(cmd_outputs) = Len(commands_to_try)
    \/ cmd_outputs # <<>> /\ meaningful(cmd_outputs[Len(cmd_outputs)])

\* No method is being called on its own.
UnitIdle ==
    /\ call = NoCall
    /\ auth = NoAuth
    /\ device_status = NoStatus
    /\ extracted = NotExtracted
    /\ cmd_outputs = <<>>
    /\ got_ip = NotRead

Init == IPIdle /\ UnitIdle /\ MonInit

\* ------------------------------------------------------------------------
\* Device clients
\* ------------------------------------------------------------------------

\* OmadaController.login, which returns ack (HTTP 200 with errorCode 0): on
\* success _get_controller_info sets controller_id when the controllers
\* request answers, and site_id when controller_id is set and the sites
\* request answers with the site; login returns True whatever it did.
login(ack, ctl_ok, site_ok) ==
    IF ~ack
    THEN UNCHANGED <<controller_id, site_id>>
    ELSE /\ controller_id' = IF ctl_ok THEN "omadac" ELSE controller_id
         /\ site_id' = IF (IF ctl_ok THEN "omadac" ELSE controller_id) # "None" /\ site_ok
                       THEN "site" ELSE site_id

\* ER707SSH.connect: a new SSHClient replaces ssh_client, then connects or
\* not; the client it replaces is not closed by connect, and stays open when
\* it was connected.
connect(ok) ==
    /\ ssh_client' = IF ok THEN "connected" ELSE "unconnected"
    /\ session_leaked' = (session_leaked \/ ssh_client = "connected")

\* Mutant of disconnect: the client is not closed.
disconnect_Noop == UNCHANGED <<ssh_client, session_leaked>>

\* ER707SSH.disconnect: close the client when there is one.
disconnect ==
    /\ ssh_client' = IF ssh_client # "None" THEN "closed" ELSE ssh_client
    /\ UNCHANGED session_leaked

\* The answers a WAN read can get: get_wan_status sends nothing while
\* controller_id or site_id is unresolved; execute_command gives None for
\* every command unless the client is connected.
ReadResults ==
    IF variant = "controller"
    THEN IF controller_id = "None" \/ site_id = "None" THEN {None} ELSE ControllerReads
    ELSE IF ssh_client # "connected" THEN {None} ELSE SshReads

\* What self.session.get/post/patch can give: a response with a status code
\* and a body (JSON with an errorCode, JSON without one, or no JSON), or an
\* exception of requests (connection refused, timeout).
Responses ==
    { [raised |-> FALSE, status_code |-> 200, body |-> "json", errorCode |-> 0],
      [raised |-> FALSE, status_code |-> 200, body |-> "json", errorCode |-> -1],
      [raised |-> FALSE, status_code |-> 200, body |-> "json_no_errorCode", errorCode |-> 0],
      [raised |-> FALSE, status_code |-> 200, body |-> "not_json", errorCode |-> 0],
      [raised |-> FALSE, status_code |-> 401, body |-> "json", errorCode |-> -1],
      [raised |-> FALSE, status_code |-> 500, body |-> "json", errorCode |-> 0],
      [raised |-> TRUE, status_code |-> 0, body |-> "none", errorCode |-> 0] }

\* Mutant of Acknowledged: the errorCode of the body is not looked at.
Acknowledged_StatusOnly(response) ==
    ~response.raised /\ response.status_code = 200

\* "if response.status_code == 200: data = response.json(); if
\* data.get('errorCode') == 0": response.json() raises on a body that is no
\* JSON and a missing errorCode is None; the except clause gives the failure.
Acknowledged(response) ==
    /\ ~response.raised
    /\ response.status_code = 200
    /\ response.body = "json"
    /\ response.errorCode = 0

\* What a response means for the session: the request did not get through,
\* the controller refused the credentials or the token (HTTP 401), the
\* request was served, or it was rejected for another reason.
AuthCause(response) ==
    IF response.raised THEN "TransportError"
    ELSE IF response.status_code = 401 THEN "AuthenticationFailed"
    ELSE IF Acknowledged(response) THEN "ok"
    ELSE "rejected"

\* What OmadaController.login returns on the response to its POST: True on
\* HTTP 200 with errorCode 0; "Login failed" and "Login exception" both
\* return False.
login_returns(response) == Acknowledged(response)

\* How paramiko's SSHClient.connect can end.
ConnectOutcomes == {"ok", "AuthenticationException", "SSHException", "Exception"}

\* What ER707SSH.connect returns: True, or False from each except clause.
connect_returns(outcome) == outcome = "ok"

\* Mutant of NotReady: only the controller identifier is looked at.
NotReady_ControllerOnly == controller_id = "None"

\* "if not self.controller_id or not self.site_id"
NotReady == controller_id = "None" \/ site_id = "None"

\* OmadaController.get_wan_status: None without a request when NotReady, else
\* one GET, and the result of the body when it is acknowledged.
get_wan_status(response) ==
    IF NotReady THEN [sent |-> 0, val |-> "None", resp |-> <<>>]
    ELSE [sent |-> 1, val |-> IF Acknowledged(response) THEN "result" ELSE "None",
          resp |-> <<response>>]

\* OmadaController.disconnect_wan_port: False without a request when NotReady,
\* else one PATCH {"enable": false}, True when it is acknowledged.
disconnect_wan_port(response) ==
    IF NotReady THEN [sent |-> 0, val |-> FALSE, resp |-> <<>>]
    ELSE [sent |-> 1, val |-> Acknowledged(response), resp |-> <<response>>]

\* OmadaController.connect_wan_port: the same with {"enable": true}.
connect_wan_port(response) ==
    IF NotReady THEN [sent |-> 0, val |-> FALSE, resp |-> <<>>]
    ELSE [sent |-> 1, val |-> Acknowledged(response), resp |-> <<response>>]

\* OmadaController.reconnect_wan_port: disconnect, time.sleep(wait_time)
\* (which raises ValueError on a negative wait), connect.
reconnect_wan_port(r1, r2, wait_time) ==
    LET d == disconnect_wan_port(r1)
        c == connect_wan_port(r2)
    IN  IF ~d.val THEN [sent |-> d.sent, val |-> "False", resp |-> d.resp]
        ELSE IF wait_time < 0 THEN [sent |-> d.sent, val |-> "ValueError", resp |-> d.resp]
        ELSE [sent |-> d.sent + c.sent, val |-> IF c.val THEN "True" ELSE "False",
              resp |-> d.resp \o c.resp]

\* What disconnect_wan_port / connect_wan_port can return to reconnect_wan_port.
PortAcks ==
    { disconnect_wan_port(response).val : response \in Responses }
        \cup { connect_wan_port(response).val : response \in Responses }

\* Mutant of check_wan_ip: the is_valid_ip test is left out.
check_wan_ip_Unvalidated(wan_ip) == IF Truthy(wan_ip) THEN wan_ip ELSE None

\* WANMonitor.check_wan_ip on the text the device gave.
check_wan_ip(wan_ip) ==
    IF Truthy(wan_ip) /\ is_valid_ip(wan_ip).val THEN wan_ip ELSE None

\* ------------------------------------------------------------------------
\* WANMonitor.monitor_loop and WANMonitor.remediate_private_ip
\* ------------------------------------------------------------------------

\* Calls of login()/connect() since consecutive_failures last reached 3 or
\* gained three further failures; a reset of the count ends the streak.
WindowAfter(cf2) ==
    IF cf2 = 0 THEN 0
    ELSE IF cf2 > consecutive_failures /\ cf2 % REAUTH_THRESHOLD = 0 THEN 0
    ELSE window_logins

SetMon(pc2, lki2, cf2) ==
    /\ pc' = pc2
    /\ last_known_ip' = lki2
    /\ consecutive_failures' = cf2
    /\ window_logins' = WindowAfter(cf2)

\* Mutant of CycleTail: re-authenticate only when the count is exactly 3.
CycleTail_Equal(cf2) == IF cf2 = REAUTH_THRESHOLD THEN "reauth" ELSE "sleep"

\* Mutant of CycleTail: every cycle re-authenticates.
CycleTail_Always(cf2) == "reauth"

\* "if self.consecutive_failures >= 3": re-authenticate, else sleep.
CycleTail(cf2) == IF cf2 >= REAUTH_THRESHOLD THEN "reauth" ELSE "sleep"

\* Mutant of RaiseInCycle: no "except Exception", the exception leaves monitor_loop.
RaiseInCycle_Propagate(e) ==
    /\ exc' = e
    /\ pc' = "propagated"

\* An exception other than KeyboardInterrupt leaves the try block of the
\* cycle: "except Exception" logs it and sleeps 60 seconds.
RaiseInCycle(e) ==
    /\ exc' = e
    /\ pc' = "cooldown"

\* Mutant of StartResult: a failed initial authenticate is only logged.
StartResult_Continue(ok) ==
    /\ pc' = "poll"
    /\ startup' = IF ok THEN "ok" ELSE "failed"
    /\ exit_status' = 0

\* The initial authenticate: "if not login(): sys.exit(1)".
StartResult(ok) ==
    IF ok THEN /\ pc' = "poll"
               /\ startup' = "ok"
               /\ exit_status' = 0
    ELSE /\ pc' = "exited"
         /\ startup' = "failed"
         /\ exit_status' = 1

Authenticate ==
    /\ pc = "start"
    /\ IF variant = "controller"
       THEN \E ack \in BOOLEAN, ctl_ok \in BOOLEAN, site_ok \in BOOLEAN :
                /\ login(ack, ctl_ok, site_ok)
                /\ StartResult(ack)
                /\ UNCHANGED <<ssh_client, session_leaked>>
       ELSE \E ok \in BOOLEAN :
                /\ connect(ok)
                /\ StartResult(ok)
                /\ UNCHANGED <<controller_id, site_id>>
    /\ UNCHANGED <<ipvars, unitvars, cfgvars, port_enable, last_known_ip, consecutive_failures,
                   window_logins, remvars, obsvars, cycvars, slept>>

\* Mutant of AttemptFailed: range(1, max + 2), one attempt too many.
AttemptFailed_ExtraAttempt(tag) ==
    /\ rem_hist' = Append(rem_hist, tag)
    /\ IF attempt < max_reconnect_attempts + 1
       THEN /\ SetMon("rem_backoff", last_known_ip, consecutive_failures)
            /\ rem_result' = rem_result
       ELSE /\ consecutive_failures < MaxFailures
            /\ SetMon(CycleTail(consecutive_failures + 1), last_known_ip,
                      consecutive_failures + 1)
            /\ rem_result' = "False"

\* Mutant of AttemptFailed: a failed attempt with attempts left abandons the
\* call and the cycle goes on without the remaining attempts.
AttemptFailed_Abandon(tag) ==
    /\ rem_hist' = Append(rem_hist, tag)
    /\ IF attempt < max_reconnect_attempts
       THEN /\ SetMon(CycleTail(consecutive_failures), last_known_ip, consecutive_failures)
            /\ rem_result' = rem_result
       ELSE /\ consecutive_failures < MaxFailures
            /\ SetMon(CycleTail(consecutive_failures + 1), last_known_ip,
                      consecutive_failures + 1)
            /\ rem_result' = "False"

\* Mutant of AttemptFailed: the "self.consecutive_failures += 1" after the
\* loop is missing.
AttemptFailed_NoCount(tag) ==
    /\ rem_hist' = Append(rem_hist, tag)
    /\ IF attempt < max_reconnect_attempts
       THEN /\ SetMon("rem_backoff", last_known_ip, consecutive_failures)
            /\ rem_result' = rem_result
       ELSE /\ SetMon(CycleTail(consecutive_failures), last_known_ip, consecutive_failures)
            /\ rem_result' = "False"

\* Mutant of AttemptFailed: the result of the toggle is not looked at, the
\* attempt goes on to the stabilization wait and the read.
AttemptFailed_Stabilize(tag) ==
    IF tag = "toggle_failed"
    THEN /\ SetMon("rem_stabilize", last_known_ip, consecutive_failures)
         /\ UNCHANGED <<rem_hist, rem_result>>
    ELSE /\ rem_hist' = Append(rem_hist, tag)
         /\ IF attempt < max_reconnect_attempts
            THEN /\ SetMon("rem_backoff", last_known_ip, consecutive_failures)
                 /\ rem_result' = rem_result
            ELSE /\ consecutive_failures < MaxFailures
                 /\ SetMon(CycleTail(consecutive_failures + 1), last_known_ip,
                           consecutive_failures + 1)
                 /\ rem_result' = "False"

\* Mutant of AttemptFailed: "if new_ip:" is missing, a read that gave no
\* address counts as the success of the call.
AttemptFailed_UnreadableSucceeds(tag) ==
    /\ rem_hist' = Append(rem_hist, tag)
    /\ IF tag = "unreadable"
       THEN /\ SetMon(CycleTail(0), last_known_ip, 0)
            /\ rem_result' = "True"
       ELSE IF attempt < max_reconnect_attempts
            THEN /\ SetMon("rem_backoff", last_known_ip, consecutive_failures)
                 /\ rem_result' = rem_result
            ELSE /\ consecutive_failures < MaxFailures
                 /\ SetMon(CycleTail(consecutive_failures + 1), last_known_ip,
                           consecutive_failures + 1)
                 /\ rem_result' = "False"

\* An attempt of remediate_private_ip that did not succeed: wait 60 seconds
\* and go on when attempts remain, else count a failure and return False.
AttemptFailed(tag) ==
    /\ rem_hist' = Append(rem_hist, tag)
    /\ IF attempt < max_reconnect_attempts
       THEN /\ SetMon("rem_backoff", last_known_ip, consecutive_failures)
            /\ rem_result' = rem_result
       ELSE /\ consecutive_failures < MaxFailures
            /\ SetMon(CycleTail(consecutive_failures + 1), last_known_ip,
                      consecutive_failures + 1)
            /\ rem_result' = "False"

\* A cycle that does not call remediate_private_ip has no remediation record.
NoRemediation ==
    /\ rem_hist' = <<>>
    /\ rem_result' = "none"
    /\ toggles' = 0
    /\ toggle_result' = "none"
    /\ cmd_failed' = FALSE
    /\ attempt' = 0

\* The top of the loop: check_wan_ip, then the branch on its result.
Poll ==
    /\ pc = "poll"
    /\ \E raw \in ReadResults : \E ip \in {check_wan_ip(raw)} :
        /\ raw_read' = raw
        /\ current_ip' = ip
        /\ failures_at_poll' = consecutive_failures
        /\ IF Truthy(ip)
           THEN IF is_private_ip(ip).val
                THEN /\ observed' = "private"
                     /\ rem_hist' = <<>>
                     /\ toggles' = 0
                     /\ toggle_result' = "none"
                     /\ cmd_failed' = FALSE
                     /\ attempt' = 1
                     /\ IF 1 <= max_reconnect_attempts
                        THEN /\ rem_result' = "running"
                             /\ SetMon("rem_disable", last_known_ip, consecutive_failures)
                        ELSE /\ consecutive_failures < MaxFailures
                             /\ rem_result' = "False"
                             /\ SetMon(CycleTail(consecutive_failures + 1), last_known_ip,
                                       consecutive_failures + 1)
                ELSE /\ observed' = "public"
                     /\ SetMon(CycleTail(0),
                               IF ip # last_known_ip THEN ip ELSE last_known_ip,
                               0)
                     /\ NoRemediation
           ELSE /\ observed' = "failure"
                /\ consecutive_failures < MaxFailures
                /\ SetMon(CycleTail(consecutive_failures + 1), last_known_ip,
                          consecutive_failures + 1)
                /\ NoRemediation
    /\ polled' = TRUE
    /\ reauth' = "none"
    /\ cycle_logins' = 0
    /\ exc' = ""
    /\ UNCHANGED <<ipvars, unitvars, cfgvars, port_enable, sessvars, slept, startup,
                   exit_status>>

\* ER707SSH.execute_command gives None when the command could not be
\* executed (no client, or exec_command raised), else its output: here
\* whether every command of a list was executed.
CommandResults == IF ssh_client = "connected" THEN BOOLEAN ELSE {FALSE}

\* The toggle of an attempt begins: reconnect_wan_port calls
\* disconnect_wan_port and returns False when it fails; restart_wan_interface
\* runs the shutdown commands and does not look at their results.
RemDisable ==
    /\ pc = "rem_disable"
    /\ toggles' = toggles + 1
    /\ IF variant = "controller"
       THEN /\ \E ack \in PortAcks :
                IF ack THEN /\ SetMon("rem_wait", last_known_ip, consecutive_failures)
                            /\ port_enable' = FALSE
                            /\ UNCHANGED <<rem_hist, rem_result, toggle_result>>
                ELSE /\ AttemptFailed("toggle_failed")
                     /\ toggle_result' = "False"
                     /\ UNCHANGED port_enable
            /\ UNCHANGED cmd_failed
       ELSE /\ \E executed \in CommandResults :
                /\ cmd_failed' = ~executed
                /\ port_enable' = IF executed THEN FALSE ELSE port_enable
            /\ SetMon("rem_wait", last_known_ip, consecutive_failures)
            /\ UNCHANGED <<rem_hist, rem_result, toggle_result>>
    /\ UNCHANGED <<ipvars, unitvars, cfgvars, sessvars, attempt, obsvars, cycvars, slept,
                   startup, exit_status>>

\* time.sleep(wait_time) between disable and enable. A negative wait makes
\* time.sleep raise ValueError: reconnect_wan_port lets it through, and so
\* does remediate_private_ip; restart_wan_interface catches it and returns
\* False.
RemWait ==
    /\ pc = "rem_wait"
    /\ IF reconnect_wait >= 0
       THEN /\ slept' = reconnect_wait
            /\ SetMon("rem_enable", last_known_ip, consecutive_failures)
            /\ UNCHANGED <<rem_hist, rem_result, toggle_result, exc>>
       ELSE IF variant = "controller"
            THEN /\ RaiseInCycle("ValueError")
                 /\ rem_result' = "raised"
                 /\ UNCHANGED <<rem_hist, toggle_result, slept, last_known_ip,
                                consecutive_failures, window_logins>>
            ELSE /\ AttemptFailed("toggle_failed")
                 /\ toggle_result' = "False"
                 /\ UNCHANGED <<slept, exc>>
    /\ UNCHANGED <<ipvars, unitvars, cfgvars, port_enable, sessvars, attempt, toggles,
                   cmd_failed, obsvars, polled, reauth, cycle_logins, startup, exit_status>>

\* The toggle ends: connect_wan_port must be acknowledged; the no-shutdown
\* commands are run without looking at their results, and
\* restart_wan_interface returns True.
RemEnable ==
    /\ pc = "rem_enable"
    /\ IF variant = "controller"
       THEN /\ \E ack \in PortAcks :
                IF ack THEN /\ SetMon("rem_stabilize", last_known_ip, consecutive_failures)
                            /\ toggle_result' = "True"
                            /\ port_enable' = TRUE
                            /\ UNCHANGED <<rem_hist, rem_result>>
                ELSE /\ AttemptFailed("toggle_failed")
                     /\ toggle_result' = "False"
                     /\ UNCHANGED port_enable
            /\ UNCHANGED cmd_failed
       ELSE /\ \E executed \in CommandResults :
                /\ cmd_failed' = (cmd_failed \/ ~executed)
                /\ port_enable' = IF executed THEN TRUE ELSE port_enable
            /\ SetMon("rem_stabilize", last_known_ip, consecutive_failures)
            /\ toggle_result' = "True"
            /\ UNCHANGED <<rem_hist, rem_result>>
    /\ UNCHANGED <<ipvars, unitvars, cfgvars, sessvars, attempt, toggles, obsvars, cycvars,
                   slept, startup, exit_status>>

\* Mutant of RemStabilize: the wait after the toggle is the configured
\* reconnect_wait.
RemStabilize_ReconnectWait ==
    /\ pc = "rem_stabilize"
    /\ slept' = reconnect_wait
    /\ SetMon("rem_read", last_known_ip, consecutive_failures)
    /\ UNCHANGED <<ipvars, unitvars, cfgvars, port_enable, sessvars, remvars, obsvars, cycvars,
                   startup, exit_status>>

\* time.sleep(30) after a toggle that succeeded.
RemStabilize ==
    /\ pc = "rem_stabilize"
    /\ slept' = STABILIZE_SECONDS
    /\ SetMon("rem_read", last_known_ip, consecutive_failures)
    /\ UNCHANGED <<ipvars, unitvars, cfgvars, port_enable, sessvars, remvars, obsvars, cycvars,
                   startup, exit_status>>

\* Mutant of RemSucceeded: the "return True" is missing, the loop goes on.
RemSucceeded_NoReturn(new_ip) ==
    /\ rem_hist' = Append(rem_hist, "public")
    /\ IF attempt < max_reconnect_attempts
       THEN /\ SetMon("rem_backoff", new_ip, 0)
            /\ rem_result' = rem_result
       ELSE /\ SetMon(CycleTail(1), new_ip, 1)
            /\ rem_result' = "False"

\* Mutant of RemSucceeded: last_known_ip is not updated.
RemSucceeded_KeepIp(new_ip) ==
    /\ rem_hist' = Append(rem_hist, "public")
    /\ rem_result' = "True"
    /\ SetMon(CycleTail(0), last_known_ip, 0)

\* A public address after the toggle: record it, reset the count, return True.
RemSucceeded(new_ip) ==
    /\ rem_hist' = Append(rem_hist, "public")
    /\ rem_result' = "True"
    /\ SetMon(CycleTail(0), new_ip, 0)

\* The verification read of an attempt and the branch on it.
RemRead ==
    /\ pc = "rem_read"
    /\ \E raw \in ReadResults : \E new_ip \in {check_wan_ip(raw)} :
        /\ raw_read' = raw
        /\ IF Truthy(new_ip)
           THEN IF ~is_private_ip(new_ip).val
                THEN /\ observed' = "public"
                     /\ RemSucceeded(new_ip)
                ELSE /\ observed' = "private"
                     /\ AttemptFailed("private")
           ELSE /\ observed' = "failure"
                /\ AttemptFailed("unreadable")
    /\ UNCHANGED <<ipvars, unitvars, cfgvars, port_enable, sessvars, attempt, toggles,
                   toggle_result, cmd_failed, current_ip, failures_at_poll, cycvars, slept,
                   startup, exit_status>>

\* time.sleep(60) before the next attempt.
RemBackoff ==
    /\ pc = "rem_backoff"
    /\ slept' = BACKOFF_SECONDS
    /\ attempt' = attempt + 1
    /\ toggle_result' = "none"
    /\ cmd_failed' = FALSE
    /\ SetMon("rem_disable", last_known_ip, consecutive_failures)
    /\ UNCHANGED <<ipvars, unitvars, cfgvars, port_enable, sessvars, rem_hist, rem_result,
                   toggles, obsvars, cycvars, startup, exit_status>>

\* Mutant of ReauthResult: a successful re-authentication does not reset the count.
ReauthResult_NoReset(ok) ==
    /\ reauth' = IF ok THEN "ok" ELSE "failed"
    /\ pc' = "sleep"
    /\ consecutive_failures' = consecutive_failures
    /\ window_logins' = window_logins + 1
    /\ UNCHANGED <<exit_status, startup>>

\* Mutant of ReauthResult: a failed re-authentication counts as one more failure.
ReauthResult_CountsFailure(ok) ==
    /\ reauth' = IF ok THEN "ok" ELSE "failed"
    /\ pc' = "sleep"
    /\ consecutive_failures' = IF ok THEN 0 ELSE consecutive_failures + 1
    /\ window_logins' = IF ok THEN 0 ELSE window_logins + 1
    /\ UNCHANGED <<exit_status, startup>>

\* Mutant of ReauthResult: a failed re-authentication exits like the initial one.
ReauthResult_ExitOnFail(ok) ==
    /\ reauth' = IF ok THEN "ok" ELSE "failed"
    /\ pc' = IF ok THEN "sleep" ELSE "exited"
    /\ exit_status' = IF ok THEN exit_status ELSE 1
    /\ consecutive_failures' = IF ok THEN 0 ELSE consecutive_failures
    /\ window_logins' = IF ok THEN 0 ELSE window_logins + 1
    /\ UNCHANGED startup

\* "if login(): self.consecutive_failures = 0, else: log", then the sleep.
ReauthResult(ok) ==
    /\ reauth' = IF ok THEN "ok" ELSE "failed"
    /\ pc' = "sleep"
    /\ consecutive_failures' = IF ok THEN 0 ELSE consecutive_failures
    /\ window_logins' = IF ok THEN 0 ELSE window_logins + 1
    /\ UNCHANGED <<exit_status, startup>>

\* Controller: "if self.controller.login(): self.consecutive_failures = 0".
ReLogin ==
    /\ pc = "reauth"
    /\ variant = "controller"
    /\ \E ack \in BOOLEAN, ctl_ok \in BOOLEAN, site_ok \in BOOLEAN :
        /\ login(ack, ctl_ok, site_ok)
        /\ ReauthResult(ack)
    /\ cycle_logins' = cycle_logins + 1
    /\ UNCHANGED <<ipvars, unitvars, cfgvars, port_enable, ssh_client, session_leaked,
                   last_known_ip, remvars, obsvars, polled, exc, slept>>

\* SSH: self.er707.disconnect() of the reconnect.
SshDisconnect ==
    /\ pc = "reauth"
    /\ variant = "ssh"
    /\ disconnect
    /\ pc' = "reauth_wait"
    /\ UNCHANGED <<ipvars, unitvars, cfgvars, port_enable, controller_id, site_id,
                   last_known_ip, consecutive_failures, window_logins, remvars, obsvars,
                   cycvars, slept, startup, exit_status>>

\* SSH: time.sleep(5) of the reconnect.
SshReconnectWait ==
    /\ pc = "reauth_wait"
    /\ slept' = SSH_RECONNECT_SECONDS
    /\ pc' = "reauth_connect"
    /\ UNCHANGED <<ipvars, unitvars, cfgvars, port_enable, sessvars, last_known_ip,
                   consecutive_failures, window_logins, remvars, obsvars, cycvars, startup,
                   exit_status>>

\* SSH: "if self.er707.connect(): self.consecutive_failures = 0".
SshReconnect ==
    /\ pc = "reauth_connect"
    /\ \E ok \in BOOLEAN :
        /\ connect(ok)
        /\ ReauthResult(ok)
    /\ cycle_logins' = cycle_logins + 1
    /\ UNCHANGED <<ipvars, unitvars, cfgvars, port_enable, controller_id, site_id,
                   last_known_ip, remvars, obsvars, polled, exc, slept>>

\* time.sleep(self.check_interval) at the end of the cycle; a negative
\* interval makes it raise ValueError inside the try block.
Sleep ==
    /\ pc = "sleep"
    /\ IF check_interval >= 0
       THEN /\ slept' = check_interval
            /\ pc' = "poll"
            /\ UNCHANGED exc
       ELSE /\ RaiseInCycle("ValueError")
            /\ UNCHANGED slept
    /\ UNCHANGED <<ipvars, unitvars, cfgvars, port_enable, sessvars, last_known_ip,
                   consecutive_failures, window_logins, remvars, obsvars, polled, reauth,
                   cycle_logins, startup, exit_status>>

\* time.sleep(60) of the "except Exception" handler, then the next cycle.
Cooldown ==
    /\ pc = "cooldown"
    /\ slept' = COOLDOWN_SECONDS
    /\ pc' = "poll"
    /\ exc' = ""
    /\ UNCHANGED <<ipvars, unitvars, cfgvars, port_enable, sessvars, last_known_ip,
                   consecutive_failures, window_logins, remvars, obsvars, polled, reauth,
                   cycle_logins, startup, exit_status>>

\* Where monitor_loop is inside the try block of its while loop.
InTry == {"poll", "rem_disable", "rem_wait", "rem_enable", "rem_stabilize", "rem_read",
          "rem_backoff", "reauth", "reauth_wait", "reauth_connect", "sleep"}

\* A manual interrupt (KeyboardInterrupt) during the call monitor_loop is in.
\* Controller: "except KeyboardInterrupt: break" covers the try block only,
\* not the handler's time.sleep(60), and not the initial login. SSH: the outer
\* try covers the whole loop, and its finally clause disconnects.
Interrupt ==
    /\ pc \in InTry \cup {"cooldown", "start"}
    /\ exc' = "KeyboardInterrupt"
    /\ IF pc = "start" THEN /\ pc' = "propagated"
                            /\ UNCHANGED <<ssh_client, session_leaked>>
       ELSE IF variant = "controller"
            THEN /\ pc' = IF pc \in InTry THEN "stopped" ELSE "propagated"
                 /\ UNCHANGED <<ssh_client, session_leaked>>
            ELSE /\ pc' = "stopped"
                 /\ disconnect
    /\ UNCHANGED <<ipvars, unitvars, cfgvars, port_enable, controller_id, site_id,
                   last_known_ip, consecutive_failures, window_logins, remvars, obsvars, polled,
                   reauth, cycle_logins, slept, startup, exit_status>>

Next ==
    \/ Authenticate
    \/ Poll
    \/ RemDisable
    \/ RemWait
    \/ RemEnable
    \/ RemStabilize
    \/ RemRead
    \/ RemBackoff
    \/ ReLogin
    \/ SshDisconnect
    \/ SshReconnectWait
    \/ SshReconnect
    \/ Sleep
    \/ Cooldown
    \/ Interrupt

Spec == Init /\ [][Next]_vars

\* The steps of the service itself: every call monitor_loop makes returns or
\* raises (the requests have a 10-second timeout, the SSH connect and the
\* commands have timeouts, every sleep is finite). A manual interrupt is the
\* operator's step, and nothing makes it happen.
LoopStep ==
    \/ Authenticate
    \/ Poll
    \/ RemDisable
    \/ RemWait
    \/ RemEnable
    \/ RemStabilize
    \/ RemRead
    \/ RemBackoff
    \/ ReLogin
    \/ SshDisconnect
    \/ SshReconnectWait
    \/ SshReconnect
    \/ Sleep
    \/ Cooldown

\* The service under the assumption that the loop is not held up for ever.
SpecLive == Init /\ [][Next]_vars /\ WF_vars(LoopStep)

\* ------------------------------------------------------------------------
\* The device clients' methods called on their own
\* ------------------------------------------------------------------------

\* wan_port_id of the configuration (0 is WAN1).
PortIds == {0, 1}

\* controller.login()
ClientLogin ==
    /\ \E response \in Responses, ctl_ok \in BOOLEAN, site_ok \in BOOLEAN :
        /\ login(login_returns(response), ctl_ok, site_ok)
        /\ auth' = [op |-> "login", cause |-> AuthCause(response),
                    val |-> login_returns(response)]
    /\ call' = NoCall
    /\ UNCHANGED <<ipvars, extractvars, getvars, cfgvars, port_enable, ssh_client,
                   session_leaked, monvars, remvars, obsvars, cycvars, slept, startup,
                   exit_status>>

\* er707.connect()
ClientConnect ==
    /\ \E outcome \in ConnectOutcomes :
        /\ connect(connect_returns(outcome))
        /\ auth' = [op |-> "connect", cause |-> outcome, val |-> connect_returns(outcome)]
    /\ UNCHANGED <<ipvars, call, extractvars, getvars, cfgvars, port_enable, controller_id,
                   site_id, monvars, remvars, obsvars, cycvars, slept, startup, exit_status>>

\* controller.get_wan_status(device_mac)
ClientGetWanStatus ==
    /\ \E response \in Responses :
        LET r == get_wan_status(response) IN
        call' = [op |-> "get_wan_status", port_id |-> 0, sent |-> r.sent, val |-> r.val,
                 resp |-> r.resp]
    /\ UNCHANGED <<ipvars, auth, extractvars, getvars, cfgvars, port_enable, sessvars, monvars,
                   remvars, obsvars, cycvars, slept, startup, exit_status>>

\* controller.disconnect_wan_port(device_mac, port_id)
ClientDisconnectWanPort ==
    /\ \E response \in Responses, port_id \in PortIds :
        LET r == disconnect_wan_port(response) IN
        /\ call' = [op |-> "disconnect_wan_port", port_id |-> port_id, sent |-> r.sent,
                    val |-> IF r.val THEN "True" ELSE "False", resp |-> r.resp]
        /\ port_enable' = IF r.val THEN FALSE ELSE port_enable
    /\ UNCHANGED <<ipvars, auth, extractvars, getvars, cfgvars, sessvars, monvars, remvars,
                   obsvars, cycvars, slept, startup, exit_status>>

\* controller.connect_wan_port(device_mac, port_id)
ClientConnectWanPort ==
    /\ \E response \in Responses, port_id \in PortIds :
        LET r == connect_wan_port(response) IN
        /\ call' = [op |-> "connect_wan_port", port_id |-> port_id, sent |-> r.sent,
                    val |-> IF r.val THEN "True" ELSE "False", resp |-> r.resp]
        /\ port_enable' = IF r.val THEN TRUE ELSE port_enable
    /\ UNCHANGED <<ipvars, auth, extractvars, getvars, cfgvars, sessvars, monvars, remvars,
                   obsvars, cycvars, slept, startup, exit_status>>

\* controller.reconnect_wan_port(device_mac, port_id, reconnect_wait)
ClientReconnectWanPort ==
    /\ \E r1 \in Responses, r2 \in Responses, port_id \in PortIds :
        LET r == reconnect_wan_port(r1, r2, reconnect_wait) IN
        /\ call' = [op |-> "reconnect_wan_port", port_id |-> port_id, sent |-> r.sent,
                    val |-> r.val, resp |-> r.resp]
        /\ port_enable' = IF r.val = "True" THEN TRUE
                          ELSE IF disconnect_wan_port(r1).val THEN FALSE
                          ELSE port_enable
    /\ UNCHANGED <<ipvars, auth, extractvars, getvars, cfgvars, sessvars, monvars, remvars,
                   obsvars, cycvars, slept, startup, exit_status>>

ClientNext ==
    \/ ClientLogin
    \/ ClientConnect
    \/ ClientGetWanStatus
    \/ ClientDisconnectWanPort
    \/ ClientConnectWanPort
    \/ ClientReconnectWanPort

\* The device clients as constructed, in a monitor as configured.
ClientInit ==
    /\ IPIdle
    /\ UnitIdle
    /\ MonInit
    /\ variant = "controller"
    /\ max_reconnect_attempts = MaxAttempts
    /\ check_interval = 300

SpecClient == ClientInit /\ [][ClientNext]_vars

\* ------------------------------------------------------------------------
\* extract_wan_ip called on its own
\* ------------------------------------------------------------------------

\* self.extract_wan_ip(device_status)
ExtractWanIp ==
    /\ extracted = NotExtracted
    /\ extracted' = extract_wan_ip(device_status)
    /\ UNCHANGED <<ipvars, clientvars, device_status, getvars, cfgvars, port_enable, sessvars,
                   monvars, remvars, obsvars, cycvars, slept, startup, exit_status>>

ExtractNext == ExtractWanIp

\* A status is drawn; the monitor is as configured.
ExtractInit ==
    /\ IPIdle
    /\ MonInit
    /\ variant = "controller"
    /\ max_reconnect_attempts = MaxAttempts
    /\ check_interval = 300
    /\ reconnect_wait = 5
    /\ call = NoCall
    /\ auth = NoAuth
    /\ device_status \in DeviceStatuses
    /\ extracted = NotExtracted
    /\ cmd_outputs = <<>>
    /\ got_ip = NotRead

SpecExtract == ExtractInit /\ [][ExtractNext]_vars

\* ------------------------------------------------------------------------
\* get_wan_ip called on its own
\* ------------------------------------------------------------------------

\* "output = self.execute_command(cmd)" for the next command of the list.
TryCommand ==
    /\ ~got_ip.done
    /\ ~LoopOver
    /\ \E output \in CommandOutputs : cmd_outputs' = Append(cmd_outputs, output)
    /\ UNCHANGED <<ipvars, clientvars, extractvars, got_ip, cfgvars, port_enable, sessvars,
                   monvars, remvars, obsvars, cycvars, slept, startup, exit_status>>

\* After the loop: "if not output: return None", else the patterns are tried
\* on output, which is what the last command issued gave.
ParseOutput ==
    /\ ~got_ip.done
    /\ LoopOver
    /\ LET output == cmd_outputs[Len(cmd_outputs)] IN
       got_ip' = IF ~Truthy(output) THEN [val |-> None, from |-> 0, done |-> TRUE]
                 ELSE [val |-> parse_from(output, 1), from |-> Len(cmd_outputs), done |-> TRUE]
    /\ UNCHANGED <<ipvars, clientvars, extractvars, cmd_outputs, cfgvars, port_enable, sessvars,
                   monvars, remvars, obsvars, cycvars, slept, startup, exit_status>>

GetNext == TryCommand \/ ParseOutput

\* An SSH client in a monitor as configured.
GetInit ==
    /\ IPIdle
    /\ UnitIdle
    /\ MonInit
    /\ variant = "ssh"
    /\ max_reconnect_attempts = MaxAttempts
    /\ check_interval = 300
    /\ reconnect_wait = 5

SpecGet == GetInit /\ [][GetNext]_vars

\* The classifier alone, on its inputs.
IPNext == ClassifyLiteral \/ ClassifyText

\* One configuration is enough: the classifier reads none of it.
IPSpecInit ==
    /\ IPInit
    /\ UnitIdle
    /\ MonInit
    /\ variant = "controller"
    /\ max_reconnect_attempts = MaxAttempts
    /\ check_interval = 300
    /\ reconnect_wait = 5

SpecIP == IPSpecInit /\ [][IPNext]_vars

\* ------------------------------------------------------------------------
\* Properties
\* ------------------------------------------------------------------------

\* C1: for every IPv4 literal a.b.c.d, is_private_ip returns True iff a = 10,
\* or a = 172 and 16 <= b <= 31, or a = 192 and b = 168, and False otherwise
\* (so 172.15.255.255 and 172.32.0.0 are public, 172.16.0.0 and
\* 172.31.255.255 private); it does not raise.
C1_PrivateIffRfc1918 ==
    (ip_octets # <<>> /\ ip_private # Pending) =>
        /\ ip_private.exc = ""
        /\ ip_private.val <=>
              \/ ip_octets[1] = 10
              \/ ip_octets[1] = 172 /\ 16 <= ip_octets[2] /\ ip_octets[2] <= 31
              \/ ip_octets[1] = 192 /\ ip_octets[2] = 168

\* C1 witness: the last address of 172.16.0.0/12 has been classified private.
C1_Witness ==
    /\ ip_octets = <<172, 31, 255, 255>>
    /\ ip_private = Return(TRUE)

\* C2: a text that does not parse as an IP address is an invalid outcome, not
\* an exception: is_valid_ip returns False, is_private_ip returns without
\* raising, check_wan_ip gives None, and the loop acts on the read as a
\* failure, never as a public or a private address.
C2_UnparseableIsReadFailure ==
    (raw_read # None /\ ip_address(raw_read).err) =>
        /\ is_valid_ip(raw_read) = Return(FALSE)
        /\ is_private_ip(raw_read).exc = ""
        /\ check_wan_ip(raw_read) = None
        /\ observed = "failure"
        /\ last_known_ip # raw_read

\* C2 witness: the poll read gave 256.1.1.1 and the cycle counted a failure.
C2_Witness ==
    /\ raw_read = <<"2", "5", "6", ".", "1", ".", "1", ".", "1">>
    /\ observed = "failure"
    /\ rem_result = "none"
    /\ pc = "sleep"
    /\ consecutive_failures = 1

\* C3: when the toggles succeed and the read after toggles 1..N-1 is private
\* and after toggle N public, remediate_private_ip has returned True at
\* attempt N with exactly N toggle calls.
C3_SuccessAtNthToggle ==
    \A N \in 1..Len(rem_hist) :
        ((\A i \in 1..(N - 1) : rem_hist[i] = "private") /\ rem_hist[N] = "public") =>
            /\ rem_result = "True"
            /\ Len(rem_hist) = N
            /\ attempt = N
            /\ toggles = N
            /\ N <= max_reconnect_attempts

\* C3 witness: success at the third of three attempts.
C3_Witness ==
    /\ rem_hist = <<"private", "private", "public">>
    /\ rem_result = "True"
    /\ toggles = 3

\* C4: when every read of the call is private, the read (not a manual
\* interrupt) that completes attempt max_reconnect_attempts returns False after
\* exactly that many toggles, raises nothing, counts one failure, and leaves
\* the loop at its failure check or its sleep, on the way to the next poll.
C4_ExhaustionReturnsFalse ==
    [][ ( /\ pc \in {"poll", "rem_read"}
          /\ exc' # "KeyboardInterrupt"
          /\ observed' = "private"
          /\ Len(rem_hist') = max_reconnect_attempts
          /\ \A i \in 1..Len(rem_hist') : rem_hist'[i] = "private" )
        => ( /\ rem_result' = "False"
             /\ toggles' = max_reconnect_attempts
             /\ exc' = ""
             /\ exit_status' = 0
             /\ consecutive_failures' = consecutive_failures + 1
             /\ pc' \in {"reauth", "sleep"} ) ]_vars

\* C4 witness: three private reads out of three attempts, then the sleep.
C4_Witness ==
    /\ rem_hist = <<"private", "private", "private">>
    /\ rem_result = "False"
    /\ max_reconnect_attempts = 3
    /\ toggles = 3
    /\ pc = "sleep"

\* C5 as stated: between the count reaching 3 and its next reset or three
\* further failures, login()/connect() is called once, also when it fails.
C5_OnceForStreak == window_logins <= 1

\* C5 amended: a cycle makes one re-authentication attempt when it reaches the
\* failure check with a count of 3 or more, and none otherwise; success
\* resets the count, failure leaves it, so the next such cycle tries again.
C5_OneReauthPerDegradedCycle ==
    /\ cycle_logins <= 1
    /\ pc \in {"reauth", "reauth_wait", "reauth_connect"} =>
          cycle_logins = 0 /\ consecutive_failures >= REAUTH_THRESHOLD
    /\ pc = "sleep" =>
          \/ reauth = "none" /\ cycle_logins = 0 /\ consecutive_failures < REAUTH_THRESHOLD
          \/ reauth = "ok" /\ cycle_logins = 1 /\ consecutive_failures = 0
          \/ reauth = "failed" /\ cycle_logins = 1 /\ consecutive_failures >= REAUTH_THRESHOLD

\* C5 witness: a second attempt of the same streak has failed too.
C5_Witness ==
    /\ pc = "sleep"
    /\ reauth = "failed"
    /\ consecutive_failures = 4
    /\ window_logins = 2

\* C6: at the end of a cycle whose read was public, and of a cycle whose
\* re-authentication succeeded, consecutive_failures is 0.
C6_ResetOnPublicOrReauth ==
    (pc = "sleep" /\ (observed = "public" \/ reauth = "ok")) => consecutive_failures = 0

\* C6 witness: a re-authentication after three failures has reset the count.
C6_Witness ==
    /\ pc = "sleep"
    /\ reauth = "ok"
    /\ observed = "failure"
    /\ consecutive_failures = 0

\* C7: when remediate_private_ip has returned True, last_known_ip is the public
\* address its last read gave and consecutive_failures is 0.
C7_SuccessSetsLastKnownIp ==
    rem_result = "True" =>
        /\ rem_hist[Len(rem_hist)] = "public"
        /\ last_known_ip = raw_read
        /\ ~ip_address(last_known_ip).err
        /\ ~is_private_ip(last_known_ip).val
        /\ consecutive_failures = 0

\* C7 witness: reads 10.0.0.5, 10.0.0.5, 203.0.113.9 with three attempts.
C7_Witness ==
    /\ max_reconnect_attempts = 3
    /\ rem_hist = <<"private", "private", "public">>
    /\ rem_result = "True"
    /\ last_known_ip = Dotted(203, 0, 113, 9)

\* C8: when the initial authenticate fails the process has exited with a
\* non-zero status, and no WAN read, toggle or poll cycle was made.
C8_StartupFailureIsFatal ==
    /\ startup = "failed" =>
          /\ pc = "exited"
          /\ exit_status # 0
          /\ ~polled
          /\ raw_read = None
          /\ observed = "none"
          /\ toggles = 0
    /\ pc = "exited" => startup = "failed"

\* C8 witness: the SSH connect failed at startup.
C8_Witness ==
    /\ variant = "ssh"
    /\ startup = "failed"
    /\ pc = "exited"
    /\ exit_status = 1

\* C9: a failed re-authentication leaves the process running and the count
\* as it was, and goes to the sleep; from there the loop sleeps check_interval
\* and polls again, unless that sleep raises (then the cooldown of C10
\* follows) or a manual interrupt arrives.
C9_FailedReauthGoesOn ==
    [][ /\ (reauth' = "failed" /\ reauth # "failed") =>
              /\ pc' = "sleep"
              /\ exit_status' = 0
              /\ consecutive_failures' = consecutive_failures
        /\ (pc = "sleep" /\ reauth = "failed") =>
              \/ pc' = "poll" /\ slept' = check_interval
              \/ pc' = "cooldown" /\ check_interval < 0
              \/ exc' = "KeyboardInterrupt" ]_vars

\* C9 witness: after the failed re-authentication the loop slept and is at its next poll.
C9_Witness ==
    /\ reauth = "failed"
    /\ pc = "poll"
    /\ slept = check_interval
    /\ exit_status = 0

\* C10: an exception other than a manual interrupt raised in a cycle puts
\* the loop in its handler, whose 60-second sleep leads to the next poll; the
\* loop has ended only when a manual interrupt arrived, and the process has
\* exited only before its first cycle.
C10_ExceptionsContained ==
    /\ [] /\ exc \notin {"", "KeyboardInterrupt"} => (pc = "cooldown" /\ exit_status = 0)
          /\ pc \in {"stopped", "propagated"} => exc = "KeyboardInterrupt"
          /\ pc = "exited" => ~polled
    /\ [][ pc = "cooldown" =>
              \/ pc' = "poll" /\ slept' = COOLDOWN_SECONDS /\ exc' = ""
              \/ exc' = "KeyboardInterrupt" ]_vars

\* C10 witness: a ValueError out of remediate_private_ip was contained, the
\* cooldown is over and the next poll is due.
C10_Witness ==
    /\ rem_result = "raised"
    /\ pc = "poll"
    /\ slept = COOLDOWN_SECONDS
    /\ exc = ""

\* Where monitor_loop is inside remediate_private_ip.
InRemediation == {"rem_disable", "rem_wait", "rem_enable", "rem_stabilize", "rem_read",
                  "rem_backoff"}

\* C11: in a cycle, remediate_private_ip is called iff check_wan_ip gave a
\* valid private address at the poll; the call is over (it returned, or it
\* raised into the loop's handler) before the failure check, the
\* check_interval sleep and the next poll; a cycle whose poll read was public
\* or failed makes no toggle. (A manual interrupt ends the loop where it is.)
C11_RemediationIffPrivateRead ==
    LET private == Truthy(current_ip) /\ is_private_ip(current_ip).val IN
    polled =>
        /\ private <=> rem_result # "none"
        /\ ~private => (toggles = 0 /\ rem_hist = <<>> /\ pc \notin InRemediation)
        /\ private =>
              /\ ~ip_address(current_ip).err
              /\ pc \in InRemediation => rem_result = "running"
              /\ rem_result = "running" =>
                    (pc \in InRemediation \/ exc = "KeyboardInterrupt")
              /\ pc \in {"reauth", "reauth_wait", "reauth_connect", "sleep"} =>
                    rem_result \in {"True", "False"}
              /\ pc \in {"poll", "cooldown"} => rem_result \in {"True", "False", "raised"}

\* C11 witness: the poll read was private and the call, two attempts long, is
\* over when the loop is at its check_interval sleep.
C11_Witness ==
    /\ current_ip = Dotted(10, 0, 0, 5)
    /\ pc = "sleep"
    /\ rem_result = "False"
    /\ max_reconnect_attempts = 2
    /\ toggles = 2

\* C12 as stated: at the end of a cycle (before its sleep), a cycle whose poll
\* read failed has raised consecutive_failures by one (unless its
\* re-authentication reset it), and a cycle whose poll read gave an address,
\* public or private, has not left it higher than it was.
C12_CountsFailedReadsOnly ==
    pc = "sleep" =>
        /\ (~Truthy(current_ip) /\ reauth # "ok") =>
              consecutive_failures = failures_at_poll + 1
        /\ Truthy(current_ip) => consecutive_failures <= failures_at_poll

\* C12 amended: consecutive_failures counts the cycles that ended without a
\* public address. At the end of a cycle it is 0 when the re-authentication
\* succeeded, the poll read was public or the remediation returned True; it
\* is one more than at the poll when the poll read failed, and also when the
\* poll read was private and the remediation returned False.
C12_CountsCyclesWithoutPublic ==
    LET private == Truthy(current_ip) /\ is_private_ip(current_ip).val IN
    pc = "sleep" =>
        IF reauth = "ok" THEN consecutive_failures = 0
        ELSE /\ ~Truthy(current_ip) => consecutive_failures = failures_at_poll + 1
             /\ (Truthy(current_ip) /\ ~private) => consecutive_failures = 0
             /\ (private /\ rem_result = "True") => consecutive_failures = 0
             /\ (private /\ rem_result = "False") =>
                   consecutive_failures = failures_at_poll + 1

\* C12 witness: a cycle that read 10.0.0.5 at its poll ends with the count
\* raised from 1 to 2 by the exhausted remediation.
C12_Witness ==
    /\ pc = "sleep"
    /\ current_ip = Dotted(10, 0, 0, 5)
    /\ rem_result = "False"
    /\ failures_at_poll = 1
    /\ consecutive_failures = 2

\* C13: in the controller variant, when reconnect_wan_port returns False
\* (the disable or the enable was not acknowledged) the attempt ends at once:
\* it is recorded as one of the max_reconnect_attempts attempts, without the
\* 30-second wait and without a WAN read; the backoff follows when attempts
\* remain, else the call returns False.
C13_FailedToggleAbortsAttempt ==
    /\ [] (pc \in InRemediation =>
              /\ attempt <= max_reconnect_attempts
              /\ Len(rem_hist) = IF pc = "rem_backoff" THEN attempt ELSE attempt - 1)
    /\ [][ (variant = "controller" /\ toggle_result' = "False" /\ toggle_result # "False") =>
              /\ pc \in {"rem_disable", "rem_enable"}
              /\ rem_hist' = Append(rem_hist, "toggle_failed")
              /\ attempt' = attempt
              /\ slept' = slept
              /\ raw_read' = raw_read
              /\ observed' = observed
              /\ IF attempt < max_reconnect_attempts
                 THEN pc' = "rem_backoff" /\ rem_result' = "running"
                 ELSE /\ pc' \in {"reauth", "sleep"}
                      /\ rem_result' = "False"
                      /\ consecutive_failures' = consecutive_failures + 1 ]_vars

\* C13 witness: three attempts whose toggle failed used up the three
\* attempts, and the stabilization wait was never taken.
C13_Witness ==
    /\ variant = "controller"
    /\ rem_hist = <<"toggle_failed", "toggle_failed", "toggle_failed">>
    /\ rem_result = "False"
    /\ toggles = 3
    /\ slept # STABILIZE_SECONDS

\* C14 as stated: in the SSH variant restart_wan_interface returns True only
\* when every command was executed, so the stabilization wait is not reached
\* after a toggle one of whose commands failed to execute.
C14_SshToggleFailureReported ==
    variant = "ssh" =>
        /\ toggle_result = "True" => ~cmd_failed
        /\ pc = "rem_stabilize" => ~cmd_failed

\* C15: remediate_private_ip returns True only in an attempt whose toggle
\* succeeded and whose read gave a valid address outside the private ranges;
\* a read after the toggle that gives no valid address ends the attempt as a
\* failure and leaves last_known_ip alone.
C15_UnreadableIsNotSuccess ==
    /\ [] (rem_result = "True" =>
              /\ toggle_result = "True"
              /\ observed = "public"
              /\ Truthy(raw_read)
              /\ check_wan_ip(raw_read) = raw_read
              /\ ~is_private_ip(raw_read).val
              /\ \A i \in 1..Len(rem_hist) : rem_hist[i] = "public" <=> i = Len(rem_hist))
    /\ [][ (pc = "rem_read" /\ exc' # "KeyboardInterrupt"
                /\ ~Truthy(check_wan_ip(raw_read'))) =>
              /\ rem_result' # "True"
              /\ rem_hist' = Append(rem_hist, "unreadable")
              /\ last_known_ip' = last_known_ip
              /\ pc' \in {"rem_backoff", "reauth", "sleep"} ]_vars

\* C15 witness: the only attempt toggled the port, then read nothing valid,
\* and the call returned False.
C15_Witness ==
    /\ max_reconnect_attempts = 1
    /\ toggle_result = "True"
    /\ rem_hist = <<"unreadable">>
    /\ rem_result = "False"
    /\ raw_read = <<"2", "5", "6", ".", "1", ".", "1", ".", "1">>

\* The response of a request that did not get through.
ConnectionError == [raised |-> TRUE, status_code |-> 0, body |-> "none", errorCode |-> 0]

\* C16 as stated: what login(), connect() and get_wan_status() return on an
\* authentication failure differs from what they return on a transport
\* error, so the caller can tell the two apart.
C16_AuthFailureDistinct ==
    /\ (auth.op = "login" /\ auth.cause = "AuthenticationFailed") =>
          auth.val # login_returns(ConnectionError)
    /\ (auth.op = "connect" /\ auth.cause = "AuthenticationException") =>
          /\ auth.val # connect_returns("SSHException")
          /\ auth.val # connect_returns("Exception")
    /\ (call.op = "get_wan_status" /\ call.sent = 1
            /\ AuthCause(call.resp[1]) = "AuthenticationFailed") =>
          call.val # get_wan_status(ConnectionError).val

\* C18 as stated: the candidates are the address keys of the 'wan' object,
\* then those of the 'networkStatus.wan' object, then those of the WAN ports
\* (type 'wan', or name starting with 'wan') of the 'ports' list in list
\* order; a shape that is absent or is no object or list yields nothing;
\* extract_wan_ip returns the first candidate that is a non-empty string, and
\* None when there is none.
C18_FirstNonEmptyShapeWins ==
    extracted # NotExtracted =>
        LET status == device_status
            wan == IF status.wan.t = "dict"
                   THEN <<status.wan.ipAddr, status.wan.ip, status.wan.ipv4>> ELSE <<>>
            nswan == IF status.networkStatus.t = "dict" THEN status.networkStatus.wan
                     ELSE JAbsent
            network == IF nswan.t = "dict" THEN <<nswan.ipAddr, nswan.ip>> ELSE <<>>
            items == IF status.ports.t = "list" THEN status.ports.items ELSE <<>>
            IsWan(port) ==
                \/ port.type = JStr(<<"w", "a", "n">>)
                \/ port.name.t = "str" /\ StartsWith(Lower(port.name.s), <<"w", "a", "n">>)
            of_ports[i \in 0..Len(items)] ==
                IF i = 0 THEN <<>>
                ELSE of_ports[i - 1]
                        \o (IF IsWan(items[i]) THEN <<items[i].ipAddr, items[i].ip>>
                            ELSE <<>>)
            candidates == wan \o network \o of_ports[Len(items)]
            hits == { i \in 1..Len(candidates) : JTruthy(candidates[i]) }
        IN  extracted.val =
                IF hits = {} THEN None
                ELSE candidates[CHOOSE i \in hits : \A k \in hits : i <= k].s

\* C20 as stated: the commands are issued in list order up to the first
\* whose stripped output is longer than 10 characters; the address returned
\* is taken from that output, and when no command gave such an output
\* get_wan_ip returns None.
C20_OnlyMeaningfulOutputParsed ==
    /\ \A i \in 1..(Len(cmd_outputs) - 1) : ~meaningful(cmd_outputs[i])
    /\ got_ip.done =>
          IF \E i \in 1..Len(cmd_outputs) : meaningful(cmd_outputs[i])
          THEN /\ meaningful(cmd_outputs[Len(cmd_outputs)])
               /\ got_ip.from = Len(cmd_outputs)
               /\ got_ip.val = parse_from(cmd_outputs[Len(cmd_outputs)], 1)
          ELSE /\ Len(cmd_outputs) = Len(commands_to_try)
               /\ got_ip.val = None

\* C21 as stated: on the output selected, the patterns are tried in list
\* order and the value returned is the first match (of the successive matches
\* of a pattern in the output, pattern after pattern) that is neither 0.0.0.0
\* nor a 127.* address; get_wan_ip never returns such an address, and returns
\* None only when no pattern has a match in the output that is acceptable.
C21_FirstAcceptableMatchWins ==
    (got_ip.done /\ got_ip.from # 0) =>
        LET output == cmd_outputs[got_ip.from]
            acceptable(ip) ==
                /\ ip # <<>>
                /\ ip # <<"0", ".", "0", ".", "0", ".", "0">>
                /\ ~StartsWith(ip, <<"1", "2", "7", ".">>)
            \* the position after the whole match of a pattern that begins at i
            end_at(pattern, i) ==
                LET e == QuadEnd(output, RunEnd(output, i + Len(pattern.before), Whitespace), 4)
                IN  IF pattern.cidr THEN RunEnd(output, e + 1, Digits) ELSE e
            \* the first acceptable one of the successive matches from i on
            first_of(pattern) ==
                LET f[i \in 1..(Len(output) + 1)] ==
                        IF i > Len(output) THEN <<>>
                        ELSE IF match_at(pattern, output, i) = <<>> THEN f[i + 1]
                        ELSE IF acceptable(match_at(pattern, output, i))
                        THEN match_at(pattern, output, i)
                        ELSE f[end_at(pattern, i)]
                IN  f[1]
            hits == { n \in 1..Len(ip_patterns) : first_of(ip_patterns[n]) # <<>> }
        IN  /\ got_ip.val # None => acceptable(got_ip.val)
            /\ got_ip.val =
                  IF hits = {} THEN None
                  ELSE first_of(ip_patterns[CHOOSE n \in hits : \A k \in hits : n <= k])

\* C22: an attempt whose toggle succeeded sleeps STABILIZE_SECONDS (30),
\* whatever reconnect_wait is, between the re-enable and its read, and no
\* read is made without it; an attempt that ends without success sleeps
\* BACKOFF_SECONDS (60, more than 30) before the next toggle when it is not
\* the last, and the backoff is taken in no other case: not after the last
\* attempt, not after a success.
C22_FixedStabilizeAndBackoff ==
    /\ [] /\ BACKOFF_SECONDS > STABILIZE_SECONDS
          /\ pc \in {"rem_stabilize", "rem_read"} => toggle_result = "True"
          /\ pc = "rem_read" => slept = STABILIZE_SECONDS
          /\ pc = "rem_backoff" =>
                /\ attempt < max_reconnect_attempts
                /\ rem_result = "running"
                /\ Len(rem_hist) = attempt
                /\ rem_hist[attempt] # "public"
    /\ [][ exc' # "KeyboardInterrupt" =>
              /\ (toggle_result' = "True" /\ toggle_result # "True") => pc' = "rem_stabilize"
              /\ pc = "rem_stabilize" => (pc' = "rem_read" /\ slept' = STABILIZE_SECONDS)
              /\ pc' = "rem_read" => pc = "rem_stabilize"
              /\ (Len(rem_hist') = Len(rem_hist) + 1 /\ rem_hist'[Len(rem_hist')] # "public") =>
                    IF attempt < max_reconnect_attempts
                    THEN pc' = "rem_backoff"
                    ELSE pc' \notin InRemediation /\ rem_result' = "False"
              /\ pc = "rem_backoff" =>
                    /\ pc' = "rem_disable"
                    /\ slept' = BACKOFF_SECONDS
                    /\ attempt' = attempt + 1
              /\ (pc' = "rem_disable" /\ attempt' > 1) => pc = "rem_backoff"
              /\ (rem_result' = "True" /\ rem_result # "True") =>
                    pc' \in {"reauth", "sleep"} ]_vars

\* C22 witness: the first of two attempts toggled the port, waited 30
\* seconds, read nothing valid, and the 60-second backoff has been taken
\* before the second toggle.
C22_Witness ==
    /\ max_reconnect_attempts = 2
    /\ reconnect_wait = 5
    /\ rem_hist = <<"unreadable">>
    /\ pc = "rem_disable"
    /\ attempt = 2
    /\ slept = BACKOFF_SECONDS

\* C23: in the SSH variant a cycle that reaches its failure check with
\* consecutive_failures >= 3 closes the SSH client, sleeps 5 seconds and only
\* then opens a new one; no connected client is ever replaced without having
\* been closed, so at most one session is open; the loop that a manual
\* interrupt ended has closed its client.
C23_SshSessionRecycled ==
    /\ [] (variant = "ssh" =>
              /\ ~session_leaked
              /\ pc \in {"reauth", "reauth_wait", "reauth_connect"} =>
                    consecutive_failures >= REAUTH_THRESHOLD
              /\ pc \in {"reauth_wait", "reauth_connect"} => ssh_client = "closed"
              /\ (pc = "sleep" /\ consecutive_failures >= REAUTH_THRESHOLD) =>
                    (reauth = "failed" /\ ssh_client = "unconnected")
              /\ (pc = "sleep" /\ reauth = "ok") => ssh_client = "connected"
              /\ pc = "stopped" => ssh_client = "closed")
    /\ [][ (variant = "ssh" /\ exc' # "KeyboardInterrupt") =>
              /\ pc = "reauth" => (pc' = "reauth_wait" /\ ssh_client' = "closed")
              /\ pc = "reauth_wait" =>
                    (pc' = "reauth_connect" /\ slept' = SSH_RECONNECT_SECONDS)
              /\ ssh_client' \in {"connected", "unconnected"} \ {ssh_client} =>
                    ssh_client \in {"None", "closed"} ]_vars

\* C23 witness: after three failed reads the client was closed and a new one
\* connected; a manual interrupt then ended the loop, which closed it.
C23_Witness ==
    /\ variant = "ssh"
    /\ reauth = "ok"
    /\ failures_at_poll = 2
    /\ pc = "stopped"
    /\ ssh_client = "closed"

\* C24: last_known_ip is None or a non-empty text that ip_address parses and
\* that lies in none of the three private ranges; it changes only at a poll
\* or at a verification read of a remediation that gave a valid public
\* address, to that address: read failures, private reads, failed toggles,
\* exhausted remediations, re-authentication, sleeps and exceptions leave it
\* as it was.
C24_LastKnownIpIsPublic ==
    /\ [] \/ last_known_ip = None
          \/ /\ last_known_ip # <<>>
             /\ ~ip_address(last_known_ip).err
             /\ \A k \in 1..Len(PRIVATE_RANGES) :
                    ~InNetwork(ip_address(last_known_ip), PRIVATE_RANGES[k])
    /\ [][ last_known_ip' # last_known_ip =>
              /\ pc \in {"poll", "rem_read"}
              /\ observed' = "public"
              /\ last_known_ip' = raw_read'
              /\ consecutive_failures' = 0
              /\ pc = "rem_read" => rem_result' = "True" ]_vars

\* C24 witness: 203.0.113.9 was recorded, then a remediation of 10.0.0.5 was
\* exhausted, its last read unparseable, and the re-authentication failed:
\* the address recorded is still 203.0.113.9.
C24_Witness ==
    /\ last_known_ip = Dotted(203, 0, 113, 9)
    /\ current_ip = Dotted(10, 0, 0, 5)
    /\ rem_result = "False"
    /\ raw_read = <<"2", "5", "6", ".", "1", ".", "1", ".", "1">>
    /\ reauth = "failed"
    /\ pc = "sleep"

\* C25: a re-authentication that fails leaves consecutive_failures as it
\* was, 3 or more. A cycle that began with such a count and completed (it
\* reached its check_interval sleep) either reset the count to 0, by a public
\* poll read, a remediation that returned True or a re-authentication that
\* succeeded, or raised it by one and made one more re-authentication
\* attempt, which failed. Nothing stops the count growing: a failed poll read
\* adds one to it whatever it is.
C25_FailedReauthRetriedEveryCycle ==
    /\ [] LET private == Truthy(current_ip) /\ is_private_ip(current_ip).val
              public == Truthy(current_ip) /\ ~is_private_ip(current_ip).val
          IN  /\ reauth = "failed" => consecutive_failures >= REAUTH_THRESHOLD
              /\ (pc = "sleep" /\ failures_at_poll >= REAUTH_THRESHOLD) =>
                    \/ /\ consecutive_failures = 0
                       /\ public \/ (private /\ rem_result = "True") \/ reauth = "ok"
                    \/ /\ consecutive_failures = failures_at_poll + 1
                       /\ ~public
                       /\ private => rem_result = "False"
                       /\ reauth = "failed"
                       /\ cycle_logins = 1
    /\ [][ /\ (reauth' = "failed" /\ reauth # "failed") =>
                  /\ consecutive_failures' = consecutive_failures
                  /\ pc' = "sleep"
           /\ (pc = "poll" /\ observed' = "failure" /\ exc' # "KeyboardInterrupt") =>
                  /\ consecutive_failures' = consecutive_failures + 1
                  /\ consecutive_failures' >= REAUTH_THRESHOLD => pc' = "reauth" ]_vars

\* C25 witness: the re-authentication failed in three cycles running, with
\* the count at 3, 4 and 5.
C25_Witness ==
    /\ pc = "sleep"
    /\ reauth = "failed"
    /\ failures_at_poll = 4
    /\ consecutive_failures = 5
    /\ window_logins = 3

\* C26 as stated: reconnect_wan_port sends the disable request first; when it
\* is not acknowledged (HTTP 200 with errorCode 0) no enable request is sent;
\* when it is acknowledged exactly one enable request is sent, after the
\* reconnect_wait pause; the call returns, and returns True iff both
\* requests were acknowledged.
C26_EnableOnlyAfterAckedDisable ==
    (call.op = "reconnect_wan_port" /\ ~(controller_id = "None" \/ site_id = "None")) =>
        LET acked(response) ==
                /\ ~response.raised
                /\ response.status_code = 200
                /\ response.body = "json"
                /\ response.errorCode = 0
        IN  /\ call.sent = Len(call.resp)
            /\ call.sent >= 1
            /\ call.sent = IF acked(call.resp[1]) THEN 2 ELSE 1
            /\ call.val \in {"True", "False"}
            /\ call.val = "True" <=>
                  /\ call.sent = 2
                  /\ acked(call.resp[1])
                  /\ acked(call.resp[2])

\* C27 as stated: when remediate_private_ip has returned in the controller
\* variant, True or False, the last toggle request that the controller
\* acknowledged during the call is an enable: the WAN port is not left
\* disabled, whichever requests failed.
C27_PortNotLeftDisabled ==
    (variant = "controller" /\ rem_result \in {"True", "False"}) => port_enable

\* The methods that act on the gateway through the controller.
PerDeviceOps == {"get_wan_status", "disconnect_wan_port", "connect_wan_port",
                 "reconnect_wan_port"}

\* C28 as stated: when login() has returned True, controller_id and site_id
\* are both resolved, and a per-device call made after that login and before
\* any other is not turned down for a missing identifier: it sends its
\* request.
C28_LoginTrueResolvesIds ==
    (auth.op = "login" /\ auth.val) =>
        /\ controller_id # "None"
        /\ site_id # "None"
        /\ call.op \in PerDeviceOps => call.sent >= 1

\* C29 as stated: a manual interrupt that arrives once the loop has been
\* entered (the initial authenticate is over), wherever the loop is, in a
\* remediation wait or in the 60-second cooldown of a contained exception,
\* ends monitor_loop through its "stopped by user" handler: the interrupt
\* does not leave monitor_loop.
C29_InterruptStopsLoop ==
    (exc = "KeyboardInterrupt" /\ startup = "ok") => pc = "stopped"

\* Where monitor_loop is inside its re-authentication.
InReauth == {"reauth", "reauth_wait", "reauth_connect"}

\* C30: a read that gives a valid public address leaves consecutive_failures
\* at 0 and last_known_ip at that address, with no re-authentication in its
\* cycle; and when from some point on every WAN read has given the same
\* public address and no exception (a manual interrupt included) is pending,
\* then from some point on consecutive_failures is 0, last_known_ip is that
\* address, no toggle and no re-authentication is made, and the loop goes on
\* polling and sleeping for ever.
C30_RecoveryReached ==
    /\ [] (observed = "public" =>
              /\ consecutive_failures = 0
              /\ last_known_ip = raw_read
              /\ reauth = "none"
              /\ pc \notin InRemediation \cup InReauth)
    /\ \A P \in PublicReads :
          <>[](raw_read = P /\ exc = "") =>
              /\ <>[] /\ consecutive_failures = 0
                      /\ last_known_ip = P
                      /\ toggles = 0
                      /\ rem_result = "none"
                      /\ reauth = "none"
                      /\ cycle_logins = 0
                      /\ pc \in {"poll", "sleep"}
              /\ []<>(pc = "poll")
              /\ []<>(pc = "sleep" /\ slept = check_interval)

\* C30 witness: a cycle that began with two failures counted read
\* 203.0.113.9 at its poll: the count is 0, the address is recorded and the
\* cycle goes to its sleep without re-authentication or toggle.
C30_Witness ==
    /\ failures_at_poll = 2
    /\ current_ip = Dotted(203, 0, 113, 9)
    /\ last_known_ip = Dotted(203, 0, 113, 9)
    /\ consecutive_failures = 0
    /\ toggles = 0
    /\ reauth = "none"
    /\ pc = "sleep"

\* C17: while controller_id or site_id is unresolved, get_wan_status,
\* disconnect_wan_port and connect_wan_port (and reconnect_wan_port, which
\* calls them) return None or False and send no HTTP request.
C17_NotReadySendsNothing ==
    (call.op \in PerDeviceOps /\ (controller_id = "None" \/ site_id = "None")) =>
        /\ call.sent = 0
        /\ call.resp = <<>>
        /\ call.val = IF call.op = "get_wan_status" THEN "None" ELSE "False"

\* C17 witness: connect_wan_port was called with the controller resolved and
\* the site not, and sent nothing.
C17_Witness ==
    /\ call.op = "connect_wan_port"
    /\ controller_id # "None"
    /\ site_id = "None"
    /\ call.sent = 0
    /\ call.val = "False"

\* C19: disconnect_wan_port and connect_wan_port return True iff a response
\* came, its status is 200 and the errorCode of its body is 0; a 200 response
\* with another errorCode gives False.
C19_PortCallTrueIff200AndZero ==
    call.op \in {"disconnect_wan_port", "connect_wan_port"} =>
        /\ call.val \in {"True", "False"}
        /\ call.val = "True" <=>
              /\ Len(call.resp) = 1
              /\ ~call.resp[1].raised
              /\ call.resp[1].status_code = 200
              /\ call.resp[1].body = "json"
              /\ call.resp[1].errorCode = 0

\* C19 witness: disconnect_wan_port got HTTP 200 with errorCode -1 and
\* returned False.
C19_Witness ==
    /\ call.op = "disconnect_wan_port"
    /\ call.sent = 1
    /\ call.resp[1].status_code = 200
    /\ call.resp[1].body = "json"
    /\ call.resp[1].errorCode = -1
    /\ call.val = "False"

====
